---- MODULE Spec2Model ----
(***************************************************************************)
(* Crawl-and-reconcile pipeline of data/crawler/collect.py.                *)
(*                                                                         *)
(* Strings are sequences of tokens (a digit is a token, a prefix such as   *)
(* "t_" is a token), so that concatenation is \o and two strings are equal *)
(* exactly when their token sequences are.  The empty string is << >>.     *)
(***************************************************************************)
EXTENDS Integers, Sequences, FiniteSets, TLC

VARIABLES
    \* ---- main(): the primary crawl -------------------------------------
    pc,                      \* position of main(): "cat", "fetch", "item", "retry", "done", "crashed", "idle"
    fetch_details,           \* main's parameter fetch_details
    catIdx,                  \* index of the (primary, mid_name) pair being crawled
    disp_cat_no,             \* handle resolved for the pair
    page_idx,                \* 1-based listing page index
    items,                   \* summaries parsed from the current listing page
    idx,                     \* 0-based position of the first pass in items
    seen_goods,              \* category ledger
    global_seen,             \* global ledger
    all_products,            \* the output list
    actually_added_indices,  \* 1-based indices appended by the first pass
    new_count,               \* products added from the current page
    retry_queue,             \* sorted(missing_indices) still to retry
    out_file,                \* what json.dump wrote to out_path (NoFile before)
    admit_log,               \* history: the key under which each appended product was admitted
    step,                    \* history: what the last step of main did
    served,                  \* the site: non-empty listing pages served so far
    fresh,                   \* history: items of the current page whose key was in no ledger
    context,                 \* main's browser context: "none", "open", "closed" or "stopped"
    \* ---- the pure functions (key derivation, gap detection, merge) -----
    fn,                      \* which function was applied last ("none" before)
    arg,                     \* its input
    res,                     \* its result
    \* ---- crawl_missing_products_by_t_number(): the recovery crawl ------
    rpc,                     \* position: "start", "cat", "fetch", "item", "finish", "returned", "crashed", "idle"
    missing_t_numbers,       \* the parameter, a list the crawl shrinks in place
    r_fetch_details,         \* the parameter fetch_details
    r_recovered_products,    \* the list recovered_products
    failed_t_numbers,        \* the ids whose enrichment raised
    r_catIdx,                \* index of the (primary, mid_name) pair being walked
    r_disp_cat_no,           \* handle resolved for the pair
    r_page_idx,              \* 1-based listing page index
    r_items,                 \* summaries parsed from the current listing page
    r_idx,                   \* 0-based position in r_items
    browser,                 \* "none", "open" (launched), "closed" (context and browser closed)
                             \* or "stopped" (left open when the driver was stopped)
    recovered_file,          \* what json.dump wrote to output_path (NoFile before)
    r_result,                \* what the call returned: [kind, value]
    r_step,                  \* history: what the last step of the recovery crawl did
    r_served,                \* the site: non-empty listing pages served so far
    initial_missing,         \* history: missing_t_numbers as passed in
    \* ---- extract_product_details() -------------------------------------
    d_pc,                    \* position: "attempt", "returned", "raised", "idle"
    max_retries,             \* the parameter
    attempt,                 \* the loop variable of "for attempt in range(max_retries)"
    d_details,               \* the local dict details
    navigations,             \* history: page.goto calls made
    populated,               \* history: some field of details was non-empty at some point
    attempt_log,             \* history: how each attempt ended, "raised" or "completed"
    d_result,                \* what the call returned
    \* ---- category.py, crawl_all_with_playwright(): the taxonomy crawl ----
    t_pc,                    \* position: "start", "home", "first", "done", "crashed", "idle"
    t_context,               \* its browser context: "none", "open", "closed" or "stopped"
    first_keys,              \* the first-level keys to visit
    t_i,                     \* 1-based index in first_keys of the key visited next
    t_result,                \* the dict result, as the list of its (first, mids) pairs
    t_acquired,              \* history: browser.new_context calls made
    \* ---- crawl_one_mid(page, first_key, mid_name, disp_cat_no) ---------
    o_pc,                    \* position: "loop", "returned", "idle"
    o_page_idx,              \* its page_idx
    o_seen_goods,            \* its seen_goods
    o_all_items,             \* its all_items
    o_fetched,               \* history: the page indices fetched, in order
    o_stop                   \* history: why the loop was left, "empty" or "no_new" ("" before)

mainVars == <<pc, fetch_details, catIdx, disp_cat_no, page_idx, items, idx, seen_goods,
              global_seen, all_products, actually_added_indices, new_count, retry_queue,
              out_file, admit_log, step, served, fresh, context>>
fnVars == <<fn, arg, res>>
recVars == <<rpc, missing_t_numbers, r_fetch_details, r_recovered_products, failed_t_numbers,
             r_catIdx, r_disp_cat_no, r_page_idx, r_items, r_idx, browser, recovered_file,
             r_result, r_step, r_served, initial_missing>>
detVars == <<d_pc, max_retries, attempt, d_details, navigations, populated, attempt_log,
             d_result>>
taxVars == <<t_pc, t_context, first_keys, t_i, t_result, t_acquired>>
oneVars == <<o_pc, o_page_idx, o_seen_goods, o_all_items, o_fetched, o_stop>>
vars == <<mainVars, fnVars, recVars, detVars, taxVars, oneVars>>

\* the content of a path nothing was written to: a list no json.dump writes
NoFile == <<[absent |-> TRUE]>>
\* None where a string may stand: a string no page holds
None == <<"None">>

\* no function is applied
FnIdle == fn = "none" /\ arg = << >> /\ res = << >>

\* the recovery crawl is not running
RecoveryIdle ==
    /\ rpc = "idle"
    /\ missing_t_numbers = << >>
    /\ r_fetch_details = TRUE
    /\ r_recovered_products = << >>
    /\ failed_t_numbers = << >>
    /\ r_catIdx = 1
    /\ r_disp_cat_no = None
    /\ r_page_idx = 1
    /\ r_items = << >>
    /\ r_idx = 0
    /\ browser = "none"
    /\ recovered_file = NoFile
    /\ r_result = [kind |-> "pending", value |-> << >>]
    /\ r_step = "start"
    /\ r_served = 0
    /\ initial_missing = << >>

\* extract_product_details is not running
ExtractIdle ==
    /\ d_pc = "idle"
    /\ max_retries = 0
    /\ attempt = 0
    /\ d_details = << >>
    /\ navigations = 0
    /\ populated = FALSE
    /\ attempt_log = << >>
    /\ d_result = << >>

\* main is not running
MainIdle ==
    /\ pc = "idle"
    /\ fetch_details = TRUE
    /\ catIdx = 1
    /\ disp_cat_no = None
    /\ page_idx = 1
    /\ items = << >>
    /\ idx = 0
    /\ seen_goods = {}
    /\ global_seen = {}
    /\ all_products = << >>
    /\ actually_added_indices = {}
    /\ new_count = 0
    /\ retry_queue = << >>
    /\ out_file = NoFile
    /\ admit_log = << >>
    /\ step = "start"
    /\ served = 0
    /\ fresh = 0
    /\ context = "none"

\* the taxonomy crawl is not running
TaxonomyIdle ==
    /\ t_pc = "idle"
    /\ t_context = "none"
    /\ first_keys = << >>
    /\ t_i = 1
    /\ t_result = << >>
    /\ t_acquired = 0

\* crawl_one_mid is not running
OneMidIdle ==
    /\ o_pc = "idle"
    /\ o_page_idx = 1
    /\ o_seen_goods = {}
    /\ o_all_items = << >>
    /\ o_fetched = << >>
    /\ o_stop = ""

\* sequences over S of length at most n
SeqsUpTo(S, n) == UNION {[1..k -> S] : k \in 0..n}

----------------------------------------------------------------------------
(* Strings and numbers *)

DigitVal == [c \in {"0", "1", "2", "3", "4", "5", "6", "7", "8", "9"} |->
               CASE c = "0" -> 0 [] c = "1" -> 1 [] c = "2" -> 2 [] c = "3" -> 3
                 [] c = "4" -> 4 [] c = "5" -> 5 [] c = "6" -> 6 [] c = "7" -> 7
                 [] c = "8" -> 8 [] c = "9" -> 9]

IsDigit(c) == c \in DOMAIN DigitVal

DigitChar == [d \in 0..9 |-> CHOOSE c \in DOMAIN DigitVal : DigitVal[c] = d]

\* int(s) for a non-empty string of decimal digits
RECURSIVE ToInt(_)
ToInt(s) == IF s = << >> THEN 0
            ELSE 10 * ToInt(SubSeq(s, 1, Len(s) - 1)) + DigitVal[s[Len(s)]]

\* str(n), the decimal form an f-string gives a non-negative int
RECURSIVE Str(_)
Str(n) == IF n < 10 THEN <<DigitChar[n]>> ELSE Str(n \div 10) \o <<DigitChar[n % 10]>>

\* the maximal run of digits of s starting at position i
RECURSIVE DigitRun(_, _)
DigitRun(s, i) == IF i > Len(s) \/ ~IsDigit(s[i]) THEN << >>
                  ELSE <<s[i]>> \o DigitRun(s, i + 1)

\* re.search(r"t_number=(\d+)", url): the first "t_number=" followed by a digit
extract_t_number_from_url(url) ==
    LET hits == {i \in 1..(Len(url) - 1) : url[i] = "t_number=" /\ IsDigit(url[i + 1])}
    IN  IF url = << >> \/ hits = {} THEN << >>
        ELSE DigitRun(url, (CHOOSE i \in hits : \A j \in hits : i <= j) + 1)

\* sorted(S) for a finite set of integers
RECURSIVE Sorted(_)
Sorted(S) == IF S = {} THEN << >>
             ELSE LET m == CHOOSE x \in S : \A y \in S : x <= y
                  IN  <<m>> \o Sorted(S \ {m})

Range(s) == {s[i] : i \in DOMAIN s}

----------------------------------------------------------------------------
(* Identity keys *)

\* first pass with goodsNo tried before t_number
GidFirstPassGoodsNoFirst(it, cat, page, i) ==
    IF it.goodsNo # << >> THEN <<"g_">> \o it.goodsNo
    ELSE IF it.t_number # << >> THEN <<"t_">> \o it.t_number
    ELSE <<"fb_">> \o cat \o <<":">> \o Str(page) \o <<":">> \o Str(i)

\* main, first pass: t_number > goodsNo > fallback on (handle, page, 0-based idx)
GidFirstPass(it, cat, page, i) ==
    IF it.t_number # << >> THEN <<"t_">> \o it.t_number
    ELSE IF it.goodsNo # << >> THEN <<"g_">> \o it.goodsNo
    ELSE <<"fb_">> \o cat \o <<":">> \o Str(page) \o <<":">> \o Str(i)

\* main, retry pass: the same, on the 1-based missing_idx
GidRetryPass(it, cat, page, missing_idx) ==
    IF it.t_number # << >> THEN <<"t_">> \o it.t_number
    ELSE IF it.goodsNo # << >> THEN <<"g_">> \o it.goodsNo
    ELSE <<"fb_">> \o cat \o <<":">> \o Str(page) \o <<":">> \o Str(missing_idx)

\* crawl_one_mid: goodsNo unprefixed, fallback on the detail url
GidOneMid(it, cat, page) ==
    IF it.t_number # << >> THEN <<"t_">> \o it.t_number
    ELSE IF it.goodsNo # << >> THEN it.goodsNo
    ELSE cat \o <<":">> \o Str(page) \o <<":">> \o it.detailUrl

----------------------------------------------------------------------------
(* The site: what the server may answer *)

MaxServed == 2          \* the site serves at most this many non-empty listing pages in a run
PageCeiling == 100      \* main: "if page_idx > 100: break"

DetailFields == {"volume", "spec", "usage", "ingredients", "caution"}

\* extract_product_details starts from five empty strings
EmptyDetails == [f \in DetailFields |-> << >>]
\* what extract_product_details may return
DetailOutcomes == {EmptyDetails, [EmptyDetails EXCEPT !["volume"] = <<"50ml">>]}

\* every result counts as a success
AnyDetailsAlways(d) == TRUE

\* any(details.values())
AnyDetails(d) == \E f \in DOMAIN d : d[f] # << >>

UrlT1 == <<"/goods?", "t_number=", "1">>
UrlT2 == <<"/goods?", "t_number=", "2">>
UrlNoT == <<"/goods?", "x=", "1">>

\* the elements the page script of parse_products_from_fragment returns
RawT1 == [goodsNo |-> <<"A">>, detailUrl |-> UrlT1]
RawT2 == [goodsNo |-> <<"B">>, detailUrl |-> UrlT2]
RawG == [goodsNo |-> <<"A">>, detailUrl |-> UrlNoT]
RawFbUrl == [goodsNo |-> << >>, detailUrl |-> UrlNoT]
RawFbNoUrl == [goodsNo |-> << >>, detailUrl |-> << >>]

\* the non-empty listing pages the server may return
ListingPages == {<<RawT1, RawT2>>, <<RawT1, RawT1>>, <<RawG, RawT1>>,
                 <<RawFbUrl, RawFbNoUrl>>, <<RawT2, RawFbUrl, RawFbUrl>>}

\* parse_products_from_fragment, the identity part: t_number comes from detailUrl
ParseItem(raw) == [goodsNo |-> raw.goodsNo, detailUrl |-> raw.detailUrl,
                   t_number |-> extract_t_number_from_url(raw.detailUrl)]

parse_products_from_fragment(pg) == [i \in DOMAIN pg |-> ParseItem(pg[i])]

\* categories.items() flattened: the (primary, mid_name) pairs in crawl order
Taxonomy == <<[primary |-> <<"P">>, mid_name |-> <<"T", "n">>],
              [primary |-> <<"P">>, mid_name |-> <<"S", "m">>]>>

Href(d) == <<"moveCategory('">> \o d \o <<"'">>

\* the a[href*="moveCategory"] links a category page may hold
CategoryPages == {
    <<[text |-> <<"T", "n">>, href |-> Href(<<"7">>)],
      [text |-> <<"S", "m">>, href |-> Href(<<"8">>)]>>,
    <<[text |-> <<"T", "n", "ml">>, href |-> Href(<<"9">>)],
      [text |-> <<" ", "t", "_", "n">>, href |-> Href(<<"7">>)],
      [text |-> <<"S", "m">>, href |-> Href(<<"7">>)]>>,
    <<[text |-> <<"T", "n">>, href |-> <<"moveCategory('">>]>> }

----------------------------------------------------------------------------
(* Handle resolution, inline in main *)

Whitespace == {" "}
\* "middot" and "katakana-dot" stand for the two non-ASCII dots norm() removes
Separators == {" ", "_", "-", "/", "\\", "middot", "katakana-dot"}
\* "won", "sale" and "plan" stand for the three Korean keywords of the filter
NoiseTokens == {"won", "sale", "ml", "ML", "plan"}

RECURSIVE LStrip(_)
LStrip(s) == IF s # << >> /\ s[1] \in Whitespace THEN LStrip(Tail(s)) ELSE s

RECURSIVE RStrip(_)
RStrip(s) == IF s # << >> /\ s[Len(s)] \in Whitespace THEN RStrip(SubSeq(s, 1, Len(s) - 1)) ELSE s

Strip(s) == LStrip(RStrip(s))

CaseFold(c) == CASE c = "T" -> "t" [] c = "S" -> "s" [] c = "P" -> "p" [] c = "ML" -> "ml"
                 [] OTHER -> c

RECURSIVE DropSeparators(_)
DropSeparators(s) == IF s = << >> THEN << >>
                     ELSE IF s[1] \in Separators THEN DropSeparators(Tail(s))
                     ELSE <<CaseFold(s[1])>> \o DropSeparators(Tail(s))

\* norm(name): strip, drop separators, casefold
norm(name) == DropSeparators(Strip(name))

\* re.search(r"moveCategory\('(\d+)'", href): group(1), or None
HrefDispCatNo(href) ==
    LET hits == {i \in 1..(Len(href) - 1) :
                    /\ href[i] = "moveCategory('"
                    /\ IsDigit(href[i + 1])
                    /\ LET run == DigitRun(href, i + 1)
                       IN  i + Len(run) + 1 <= Len(href) /\ href[i + Len(run) + 1] = "'"}
    IN  IF hits = {} THEN None
        ELSE DigitRun(href, (CHOOSE i \in hits : \A j \in hits : i <= j) + 1)

LinkMatches(link, mid_name) ==
    LET text == Strip(link.text)
    IN  /\ \A i \in DOMAIN text : text[i] \notin NoiseTokens
        /\ (norm(text) = norm(mid_name) \/ text = mid_name)
        /\ HrefDispCatNo(link.href) # None

\* the loop over mid_links: the first link that passes the noise filter, matches and
\* carries a handle; None when there is none
ResolveInline(mid_links, mid_name) ==
    LET hits == {i \in DOMAIN mid_links : LinkMatches(mid_links[i], mid_name)}
    IN  IF hits = {} THEN None
        ELSE HrefDispCatNo(mid_links[CHOOSE i \in hits : \A j \in hits : i <= j].href)

----------------------------------------------------------------------------
(* main(): the primary crawl *)

primary == Taxonomy[catIdx].primary
mid_name == Taxonomy[catIdx].mid_name

\* the duplicate test with the global ledger forgotten
InLedgersCategoryOnly(gid, global, category) == gid \in category

\* "if gid in global_seen or gid in seen_goods: continue"
InLedgers(gid, global, category) == gid \in global \/ gid \in category

\* seen_goods.add(gid) / global_seen.add(gid)
LedgerAdd(ledger, gid) == ledger \cup {gid}

\* a remove that leaves the key in the ledger
LedgerKeep(ledger, gid) == ledger

\* seen_goods.remove(gid) / global_seen.remove(gid)
LedgerRemove(ledger, gid) == ledger \ {gid}

\* an append at the front
ListPrepend(list, x) == <<x>> \o list

\* all_products.append(it)
ListAppend(list, x) == Append(list, x)

\* the dict appended to all_products: the summary, its provenance and, when
\* it.update(...) ran, the five detail keys (details is << >> when it did not)
Product(it, details) ==
    [goodsNo |-> it.goodsNo, detailUrl |-> it.detailUrl, t_number |-> it.t_number,
     first_category |-> primary, mid_category |-> mid_name, page_idx |-> page_idx,
     details |-> details]

\* the retry pass's any(...) over all_products
AlreadyAdded(products, t_num, goods_no) ==
    \E i \in DOMAIN products :
        \/ (products[i].t_number # << >> /\ products[i].t_number = t_num)
        \/ (products[i].goodsNo # << >> /\ products[i].goodsNo = goods_no)

Init ==
    /\ pc = "cat"
    /\ fetch_details \in BOOLEAN
    /\ catIdx = 1
    /\ disp_cat_no = None
    /\ page_idx = 1
    /\ items = << >>
    /\ idx = 0
    /\ seen_goods = {}
    /\ global_seen = {}
    /\ all_products = << >>
    /\ actually_added_indices = {}
    /\ new_count = 0
    /\ retry_queue = << >>
    /\ out_file = NoFile
    /\ admit_log = << >>
    /\ step = "start"
    /\ served = 0
    /\ fresh = 0
    /\ context = "open"
    /\ FnIdle
    /\ RecoveryIdle
    /\ ExtractIdle
    /\ TaxonomyIdle
    /\ OneMidIdle

\* a close that does nothing
ContextCloseNever(c) == c

\* context.close(); browser.close()
ContextClose(c) == IF c = "open" THEN "closed" ELSE c

\* an exception leaves the block "with sync_playwright() as p": the exit handler of
\* the block stops the driver and context.close() is not called
ExitHandler(c) == IF c = "open" THEN "stopped" ELSE c

\* leaving the page loop: the locals of the loop are dead until they are set again
NextCategory ==
    /\ pc' = "cat"
    /\ catIdx' = catIdx + 1
    /\ disp_cat_no' = None
    /\ page_idx' = 1
    /\ items' = << >>
    /\ idx' = 0
    /\ seen_goods' = {}
    /\ actually_added_indices' = {}
    /\ new_count' = 0
    /\ retry_queue' = << >>
    /\ fresh' = 0

\* an uncaught exception leaves main: nothing is written to out_path, and the
\* locals of the loops are dead
Crash ==
    /\ pc' = "crashed"
    /\ disp_cat_no' = None
    /\ page_idx' = 1
    /\ items' = << >>
    /\ idx' = 0
    /\ actually_added_indices' = {}
    /\ new_count' = 0
    /\ retry_queue' = << >>
    /\ fresh' = 0
    /\ context' = ExitHandler(context)
    /\ UNCHANGED <<catIdx, out_file>>

\* a test that lets every category through
UnresolvedNever(d) == FALSE

\* "if not disp_cat_no"
Unresolved(d) == d = None

\* one iteration of "for mid_name in mids" up to the page loop: visit the category
\* page and resolve the handle
VisitCategory ==
    /\ pc = "cat" /\ catIdx <= Len(Taxonomy)
    /\ \E mid_links \in CategoryPages :
         LET d == ResolveInline(mid_links, mid_name)
         IN  IF Unresolved(d)
             THEN /\ NextCategory
                  /\ step' = "no_handle"
             ELSE /\ pc' = "fetch"
                  /\ disp_cat_no' = d
                  /\ page_idx' = 1
                  /\ seen_goods' = {}
                  /\ step' = "handle"
                  /\ UNCHANGED <<catIdx, items, idx, actually_added_indices, new_count,
                                 retry_queue, fresh>>
    /\ UNCHANGED <<context, fetch_details, global_seen, all_products, out_file, admit_log, served,
                   fnVars, recVars, detVars, taxVars, oneVars>>

\* page.goto of the category page or of a listing page raises: main does not catch it
NavigationRaises ==
    /\ \/ (pc = "cat" /\ catIdx <= Len(Taxonomy))
       \/ pc = "fetch"
    /\ Crash
    /\ step' = "nav_error"
    /\ UNCHANGED <<fetch_details, seen_goods, global_seen, all_products, admit_log, served,
                   fnVars, recVars, detVars, taxVars, oneVars>>

\* the head of "while True" when the server answers the fetch of listing page
\* page_idx with pg: count, break on zero, parse
ServePage(pg) ==
    /\ pc = "fetch"
    /\ IF Len(pg) = 0
       THEN /\ NextCategory
            /\ step' = "empty_page"
            /\ served' = served
       ELSE /\ pc' = "item"
            /\ served' = served + 1
            /\ items' = parse_products_from_fragment(pg)
            /\ idx' = 0
            /\ new_count' = 0
            /\ actually_added_indices' = {}
            /\ retry_queue' = << >>
            /\ fresh' = 0
            /\ step' = "page"
            /\ UNCHANGED <<catIdx, disp_cat_no, page_idx, seen_goods>>
    /\ UNCHANGED <<context, fetch_details, global_seen, all_products, out_file, admit_log, fnVars, recVars, detVars, taxVars,
                   oneVars>>

\* the fetch against a site that serves MaxServed non-empty pages in a run
FetchPage ==
    \E pg \in (IF served < MaxServed THEN ListingPages \cup {<< >>} ELSE {<< >>}) :
        ServePage(pg)

\* one iteration of "for idx, it in enumerate(items)".  details is what
\* extract_product_details returns, back_ok whether the page.goto back to the listing
\* page returns (both are read only when the detail page is visited)
ProcessItem(details, back_ok) ==
    /\ pc = "item" /\ idx < Len(items)
    /\ LET it == items[idx + 1]
           gid == GidFirstPass(it, disp_cat_no, page_idx, idx)
           visit == fetch_details /\ it.detailUrl # << >>
       IN  IF InLedgers(gid, global_seen, seen_goods)
           THEN \* continue
                /\ step' = "skip"
                /\ pc' = "item" /\ idx' = idx + 1
                /\ UNCHANGED <<context, seen_goods, global_seen, all_products, admit_log,
                               actually_added_indices, new_count, fresh>>
           ELSE IF ~visit \/ (AnyDetails(details) /\ back_ok)
           THEN \* should_add stays True
                /\ step' = "append"
                /\ pc' = "item" /\ idx' = idx + 1
                /\ seen_goods' = LedgerAdd(seen_goods, gid)
                /\ global_seen' = LedgerAdd(global_seen, gid)
                /\ all_products' = ListAppend(all_products,
                                              Product(it, IF visit THEN details ELSE << >>))
                /\ admit_log' = Append(admit_log, gid)
                /\ actually_added_indices' = actually_added_indices \cup {idx + 1}
                /\ new_count' = new_count + 1
                /\ fresh' = fresh + 1
                /\ context' = context
           ELSE IF AnyDetails(details) \/ back_ok
           THEN \* no details (else branch), or the way back raised after an update
                \* (except branch): the admission is rolled back
                /\ step' = (IF back_ok THEN "rollback_empty" ELSE "rollback_error")
                /\ pc' = "item" /\ idx' = idx + 1
                /\ seen_goods' = LedgerRemove(LedgerAdd(seen_goods, gid), gid)
                /\ global_seen' = LedgerRemove(LedgerAdd(global_seen, gid), gid)
                /\ fresh' = fresh + 1
                /\ UNCHANGED <<context, all_products, admit_log, actually_added_indices,
                               new_count>>
           ELSE \* no details and the way back raises: the except branch removes a key
                \* the else branch has removed already, and the KeyError leaves main
                /\ step' = "key_error"
                /\ pc' = "crashed" /\ idx' = idx
                /\ context' = ExitHandler(context)
                /\ seen_goods' = LedgerRemove(LedgerAdd(seen_goods, gid), gid)
                /\ global_seen' = LedgerRemove(LedgerAdd(global_seen, gid), gid)
                /\ fresh' = fresh + 1
                /\ UNCHANGED <<all_products, admit_log, actually_added_indices, new_count>>
    /\ UNCHANGED <<fetch_details, catIdx, disp_cat_no, page_idx, items, retry_queue,
                   out_file, served, fnVars, recVars, detVars, taxVars, oneVars>>

\* after the first pass: missing_indices, sorted, are what the retry pass walks
EndFirstPass ==
    /\ pc = "item" /\ idx = Len(items)
    /\ pc' = "retry"
    /\ retry_queue' = Sorted((1..Len(items)) \ actually_added_indices)
    /\ step' = "first_pass_done"
    /\ UNCHANGED <<context, fetch_details, catIdx, disp_cat_no, page_idx, items, idx, seen_goods,
                   global_seen, all_products, actually_added_indices, new_count,
                   out_file, admit_log, served, fresh, fnVars, recVars, detVars, taxVars,
                   oneVars>>

\* one iteration of "for missing_idx in sorted(missing_indices)".  The page.goto back
\* to the listing page comes after the append and is caught: it changes nothing
RetryItem(details) ==
    /\ pc = "retry" /\ retry_queue # << >>
    /\ LET missing_idx == Head(retry_queue)
           it == items[missing_idx]
           gid == GidRetryPass(it, disp_cat_no, page_idx, missing_idx)
       IN  IF AlreadyAdded(all_products, it.t_number, it.goodsNo)
           THEN /\ step' = "retry_skip"
                /\ UNCHANGED <<seen_goods, global_seen, all_products, admit_log, new_count>>
           ELSE IF it.detailUrl = << >>
           THEN /\ step' = "retry_no_url"
                /\ UNCHANGED <<seen_goods, global_seen, all_products, admit_log, new_count>>
           ELSE /\ step' = "retry_append"
                /\ seen_goods' = LedgerAdd(seen_goods, gid)
                /\ global_seen' = LedgerAdd(global_seen, gid)
                /\ all_products' = ListAppend(all_products,
                                              Product(it, IF fetch_details THEN details ELSE << >>))
                /\ admit_log' = Append(admit_log, gid)
                /\ new_count' = new_count + 1
    /\ retry_queue' = Tail(retry_queue)
    /\ UNCHANGED <<context, pc, fetch_details, catIdx, disp_cat_no, page_idx, items, idx,
                   actually_added_indices, out_file, served, fresh, fnVars, recVars, detVars, taxVars,
                   oneVars>>

\* a step of two pages
NextPageIdxSkipping(p) == p + 2

\* "page_idx += 1"
NextPageIdx(p) == p + 1

\* a loop without the ceiling
PastCeilingNever(p) == FALSE

\* "if page_idx > 100: break"
PastCeiling(p) == p > PageCeiling

\* the tail of "while True": stop on a page that added nothing or past the ceiling
EndPage ==
    /\ pc = "retry" /\ retry_queue = << >>
    /\ IF new_count = 0 \/ PastCeiling(NextPageIdx(page_idx))
       THEN NextCategory
       ELSE /\ pc' = "fetch"
            /\ page_idx' = NextPageIdx(page_idx)
            /\ items' = << >>
            /\ idx' = 0
            /\ new_count' = 0
            /\ actually_added_indices' = {}
            /\ fresh' = 0
            /\ UNCHANGED <<catIdx, disp_cat_no, seen_goods, retry_queue>>
    /\ step' = "page_done"
    /\ UNCHANGED <<context, fetch_details, global_seen, all_products, out_file, admit_log, served,
                   fnVars, recVars, detVars, taxVars, oneVars>>

\* after the loops: close the browser and json.dump(all_products)
Finish ==
    /\ pc = "cat" /\ catIdx > Len(Taxonomy)
    /\ pc' = "done"
    /\ context' = ContextClose(context)
    /\ out_file' = all_products
    /\ step' = "saved"
    /\ UNCHANGED <<fetch_details, catIdx, disp_cat_no, page_idx, items, idx, seen_goods,
                   global_seen, all_products, actually_added_indices, new_count,
                   retry_queue, admit_log, served, fresh, fnVars, recVars, detVars, taxVars,
                   oneVars>>

Next ==
    \/ VisitCategory
    \/ NavigationRaises
    \/ FetchPage
    \/ \E details \in DetailOutcomes, back_ok \in BOOLEAN : ProcessItem(details, back_ok)
    \/ EndFirstPass
    \/ \E details \in DetailOutcomes : RetryItem(details)
    \/ EndPage
    \/ Finish

Spec == Init /\ [][Next]_vars

----------------------------------------------------------------------------
(* main() against a site whose categories are deeper than the ceiling *)

MaxBeyond == 1          \* every category has PageCeiling + MaxBeyond non-empty pages

\* listing page p of a category: one product, whose t_number is p
DeepPage(p) == <<[goodsNo |-> << >>, detailUrl |-> <<"/goods?", "t_number=">> \o Str(p)]>>

\* details with a field populated
SomeDetails == [EmptyDetails EXCEPT !["volume"] = <<"50ml">>]

\* the fetch against the deep site: page page_idx, or no summary element
FetchPageDeep ==
    \E pg \in (IF page_idx <= PageCeiling + MaxBeyond THEN {DeepPage(page_idx), << >>}
                ELSE {<< >>}) :
        ServePage(pg)

----------------------------------------------------------------------------
(* crawl_missing_products_by_t_number(): the recovery crawl *)

MaxMissingId == 3           \* the ids asked for are in 1..MaxMissingId
MaxMissingLen == 2          \* and at most this many
MaxRecoveryServed == 2      \* the site serves at most this many non-empty listing pages

RawT01 == [goodsNo |-> <<"A">>, detailUrl |-> <<"/goods?", "t_number=", "0", "1">>]
RawT3NoGoodsNo == [goodsNo |-> << >>, detailUrl |-> <<"/goods?", "t_number=", "3">>]

\* the non-empty listing pages the server may return to the recovery crawl
RecoveryPages == {<<RawT1, RawT2>>, <<RawT01, RawT1>>, <<RawFbNoUrl, RawT3NoGoodsNo>>}

\* the loop over mid_links of the recovery crawl: as in main
ResolveInlineRecovery(mid_links, mid_name_) ==
    LET hits == {i \in DOMAIN mid_links : LinkMatches(mid_links[i], mid_name_)}
    IN  IF hits = {} THEN None
        ELSE HrefDispCatNo(mid_links[CHOOSE i \in hits : \A j \in hits : i <= j].href)

\* a remove that removes nothing
ListRemoveNothing(list, x) == list

\* list.remove(x): the first occurrence goes
ListRemove(list, x) ==
    LET at == CHOOSE i \in DOMAIN list : list[i] = x /\ \A j \in 1..(i - 1) : list[j] # x
    IN  SubSeq(list, 1, at - 1) \o SubSeq(list, at + 1, Len(list))

\* the summary with its provenance and, when it.update(...) ran, the detail keys
RecoveredProduct(it, details) ==
    [goodsNo |-> it.goodsNo, detailUrl |-> it.detailUrl, t_number |-> it.t_number,
     first_category |-> Taxonomy[r_catIdx].primary,
     mid_category |-> Taxonomy[r_catIdx].mid_name,
     page_idx |-> r_page_idx, details |-> details]

\* the call with a list of ids
InitRecoveryWith(missing) ==
    /\ rpc = "start"
    /\ missing_t_numbers = missing
    /\ initial_missing = missing
    /\ r_fetch_details \in BOOLEAN
    /\ r_recovered_products = << >>
    /\ failed_t_numbers = << >>
    /\ r_catIdx = 1
    /\ r_disp_cat_no = None
    /\ r_page_idx = 1
    /\ r_items = << >>
    /\ r_idx = 0
    /\ browser = "none"
    /\ recovered_file = NoFile
    /\ r_result = [kind |-> "pending", value |-> << >>]
    /\ r_step = "start"
    /\ r_served = 0

InitRecovery ==
    /\ MainIdle
    /\ FnIdle
    /\ ExtractIdle
    /\ TaxonomyIdle
    /\ OneMidIdle
    /\ \E missing \in SeqsUpTo(1..MaxMissingId, MaxMissingLen) : InitRecoveryWith(missing)

RecoveryPageCeiling == 100      \* the recovery crawl: "if page_idx > 100: break"

\* a test that never says found
NoneMissingNever(missing) == FALSE

\* "if not missing_t_numbers"
NoneMissing(missing) == missing = << >>

\* "if t_num in missing_t_numbers"
IsMissing(t_num, missing) == t_num \in Range(missing)

\* the locals of the page loop are dead until they are set again
RecoveryLocalsReset ==
    /\ r_disp_cat_no' = None
    /\ r_page_idx' = 1
    /\ r_items' = << >>
    /\ r_idx' = 0

\* after the page loop: "if not missing_t_numbers: break" in both category loops,
\* else the next mid_name
RecoveryLeavePageLoop ==
    /\ RecoveryLocalsReset
    /\ IF NoneMissing(missing_t_numbers)
       THEN rpc' = "finish" /\ r_catIdx' = r_catIdx
       ELSE rpc' = "cat" /\ r_catIdx' = r_catIdx + 1

\* the head of the function: nothing to recover, or the browser is launched
RecoveryStart ==
    /\ rpc = "start"
    /\ IF missing_t_numbers = << >>
       THEN /\ rpc' = "returned"
            /\ r_result' = [kind |-> "None", value |-> << >>]
            /\ r_step' = "nothing_missing"
            /\ browser' = browser
       ELSE /\ rpc' = "cat"
            /\ browser' = "open"
            /\ r_step' = "launched"
            /\ r_result' = r_result
    /\ UNCHANGED <<missing_t_numbers, r_fetch_details, r_recovered_products, failed_t_numbers,
                   r_catIdx, r_disp_cat_no, r_page_idx, r_items, r_idx, recovered_file,
                   r_served, initial_missing, mainVars, fnVars, detVars, taxVars,
                   oneVars>>

\* one iteration of "for mid_name in mids" up to the page loop
RecoveryVisitCategory ==
    /\ rpc = "cat" /\ r_catIdx <= Len(Taxonomy)
    /\ \E mid_links \in CategoryPages :
         LET d == ResolveInlineRecovery(mid_links, Taxonomy[r_catIdx].mid_name)
         IN  IF d = None
             THEN /\ rpc' = "cat"
                  /\ r_catIdx' = r_catIdx + 1
                  /\ RecoveryLocalsReset
                  /\ r_step' = "no_handle"
             ELSE /\ rpc' = "fetch"
                  /\ r_disp_cat_no' = d
                  /\ r_page_idx' = 1
                  /\ r_step' = "handle"
                  /\ UNCHANGED <<r_catIdx, r_items, r_idx>>
    /\ UNCHANGED <<missing_t_numbers, r_fetch_details, r_recovered_products, failed_t_numbers,
                   browser, recovered_file, r_result, r_served, initial_missing,
                   mainVars, fnVars, detVars, taxVars, oneVars>>

\* page.goto of the category page or of a listing page raises: nothing catches it,
\* the function is left without a return value and without context.close(); the
\* exit handler of the block stops the driver
RecoveryNavigationRaises ==
    /\ \/ (rpc = "cat" /\ r_catIdx <= Len(Taxonomy))
       \/ rpc = "fetch"
    /\ rpc' = "crashed"
    /\ RecoveryLocalsReset
    /\ r_step' = "nav_error"
    /\ browser' = ExitHandler(browser)
    /\ UNCHANGED <<missing_t_numbers, r_fetch_details, r_recovered_products, failed_t_numbers,
                   r_catIdx, recovered_file, r_result, r_served, initial_missing,
                   mainVars, fnVars, detVars, taxVars, oneVars>>

\* the head of "while True" when the server answers the fetch of listing page
\* r_page_idx with pg
RecoveryServePage(pg) ==
    /\ rpc = "fetch"
    /\ IF Len(pg) = 0
       THEN /\ RecoveryLeavePageLoop
            /\ r_step' = "empty_page"
            /\ r_served' = r_served
       ELSE /\ rpc' = "item"
            /\ r_items' = parse_products_from_fragment(pg)
            /\ r_idx' = 0
            /\ r_served' = r_served + 1
            /\ r_step' = "page"
            /\ UNCHANGED <<r_catIdx, r_disp_cat_no, r_page_idx>>
    /\ UNCHANGED <<missing_t_numbers, r_fetch_details, r_recovered_products, failed_t_numbers,
                   browser, recovered_file, r_result, initial_missing,
                   mainVars, fnVars, detVars, taxVars, oneVars>>

RecoveryFetchPage ==
    \E pg \in (IF r_served < MaxRecoveryServed THEN RecoveryPages \cup {<< >>} ELSE {<< >>}) :
        RecoveryServePage(pg)


\* one iteration of "for idx, it in enumerate(items)".  details is what
\* extract_product_details returns, back_ok whether the page.goto back to the listing
\* page returns (both are read only when the detail page is visited).  The append
\* and the remove come after the try statement, whichever way it was left
RecoveryProcessItem(details, back_ok) ==
    /\ rpc = "item" /\ r_idx < Len(r_items)
    /\ LET it == r_items[r_idx + 1]
           t_num == ToInt(it.t_number)
           visit == r_fetch_details /\ it.detailUrl # << >>
       IN  IF it.t_number = << >> \/ ~IsMissing(t_num, missing_t_numbers)
           THEN /\ r_step' = "pass"
                /\ UNCHANGED <<missing_t_numbers, r_recovered_products, failed_t_numbers>>
           ELSE /\ r_step' = (IF visit /\ ~back_ok THEN "enrich_error" ELSE "recovered")
                /\ failed_t_numbers' = (IF visit /\ ~back_ok
                                        THEN Append(failed_t_numbers, t_num)
                                        ELSE failed_t_numbers)
                /\ r_recovered_products' =
                       Append(r_recovered_products,
                              RecoveredProduct(it, IF visit THEN details ELSE << >>))
                /\ missing_t_numbers' = ListRemove(missing_t_numbers, t_num)
    /\ r_idx' = r_idx + 1
    /\ UNCHANGED <<rpc, r_fetch_details, r_catIdx, r_disp_cat_no, r_page_idx, r_items,
                   browser, recovered_file, r_result, r_served, initial_missing,
                   mainVars, fnVars, detVars, taxVars, oneVars>>

\* the tail of "while True": stop when nothing is missing or past the ceiling
RecoveryEndPage ==
    /\ rpc = "item" /\ r_idx = Len(r_items)
    /\ IF NoneMissing(missing_t_numbers) \/ r_page_idx + 1 > RecoveryPageCeiling
       THEN RecoveryLeavePageLoop
       ELSE /\ rpc' = "fetch"
            /\ r_page_idx' = r_page_idx + 1
            /\ r_items' = << >>
            /\ r_idx' = 0
            /\ UNCHANGED <<r_catIdx, r_disp_cat_no>>
    /\ r_step' = "page_done"
    /\ UNCHANGED <<missing_t_numbers, r_fetch_details, r_recovered_products, failed_t_numbers,
                   browser, recovered_file, r_result, r_served, initial_missing,
                   mainVars, fnVars, detVars, taxVars, oneVars>>

\* after the loops: close the browser, save a non-empty recovered list, return
RecoveryFinish ==
    /\ \/ (rpc = "cat" /\ r_catIdx > Len(Taxonomy))
       \/ rpc = "finish"
    /\ rpc' = "returned"
    /\ browser' = ContextClose(browser)
    /\ recovered_file' = (IF r_recovered_products # << >> THEN r_recovered_products
                          ELSE recovered_file)
    /\ r_result' = [kind |-> "triple",
                    value |-> <<r_recovered_products, failed_t_numbers, missing_t_numbers>>]
    /\ r_step' = "returned"
    /\ UNCHANGED <<missing_t_numbers, r_fetch_details, r_recovered_products, failed_t_numbers,
                   r_catIdx, r_disp_cat_no, r_page_idx, r_items, r_idx, r_served,
                   initial_missing, mainVars, fnVars, detVars, taxVars, oneVars>>

NextRecovery ==
    \/ RecoveryStart
    \/ RecoveryVisitCategory
    \/ RecoveryNavigationRaises
    \/ RecoveryFetchPage
    \/ \E details \in DetailOutcomes, back_ok \in BOOLEAN : RecoveryProcessItem(details, back_ok)
    \/ RecoveryEndPage
    \/ RecoveryFinish

SpecRecovery == InitRecovery /\ [][NextRecovery]_vars

(* -- either crawl against the deep site: every enrichment succeeds and no
      navigation raises -- *)

\* an id that is on page 2 of every category, and one that is on no page
DeepMissing == {<<2>>, <<RecoveryPageCeiling + MaxBeyond + 1>>}

RecoveryFetchPageDeep ==
    \E pg \in (IF r_page_idx <= RecoveryPageCeiling + MaxBeyond
                THEN {DeepPage(r_page_idx), << >>}
                ELSE {<< >>}) :
        RecoveryServePage(pg)

InitPaging ==
    \/ Init
    \/ /\ MainIdle
       /\ FnIdle
       /\ ExtractIdle
       /\ TaxonomyIdle
       /\ OneMidIdle
       /\ \E missing \in DeepMissing : InitRecoveryWith(missing)

NextPaging ==
    \/ VisitCategory
    \/ FetchPageDeep
    \/ ProcessItem(SomeDetails, TRUE)
    \/ EndFirstPass
    \/ RetryItem(SomeDetails)
    \/ EndPage
    \/ Finish
    \/ RecoveryStart
    \/ RecoveryVisitCategory
    \/ RecoveryFetchPageDeep
    \/ RecoveryProcessItem(SomeDetails, TRUE)
    \/ RecoveryEndPage
    \/ RecoveryFinish

SpecPaging == InitPaging /\ [][NextPaging]_vars

\* both crawls are sequential programs whose navigations time out: a step that can
\* be taken is taken
Progress == <<pc, catIdx, page_idx, idx, Len(retry_queue), rpc, r_catIdx, r_page_idx, r_idx>>

SpecPagingFair == SpecPaging /\ WF_Progress(NextPaging)

(* -- either crawl is run -- *)

InitCrawls == Init \/ InitRecovery

NextCrawls == Next \/ NextRecovery

SpecCrawls == InitCrawls /\ [][NextCrawls]_vars

----------------------------------------------------------------------------
(* extract_product_details(page, product_url, max_retries) *)

MaxRetries == 3         \* max_retries is in 0..MaxRetries (the default is 3, the callers pass 2)

\* the labels the mapping looks for stand for the Korean phrases of the source:
\* "volume-of-contents", "weight", "main-spec", "how-to-use", "ingredients",
\* "cosmetics-act", "precautions"
BlockVolume == [dt |-> <<"volume-of-contents", " ">>, dd |-> <<" ", "50ml">>]
BlockWeightBlank == [dt |-> <<"weight">>, dd |-> <<" ">>]
BlockIngredients == [dt |-> <<"cosmetics-act", "ingredients">>, dd |-> <<"water">>]
BlockIngredientsOnly == [dt |-> <<"ingredients">>, dd |-> <<"water">>]
BlockUsage == [dt |-> <<"how-to-use">>, dd |-> <<"apply">>]
BlockCautionNoDd == [dt |-> <<"precautions">>, dd |-> None]

\* the dl.detail_info_list elements a detail page may hold
DetailPages == {<< >>, <<BlockVolume>>, <<BlockWeightBlank>>, <<BlockVolume, BlockWeightBlank>>,
                <<BlockIngredients, BlockUsage>>, <<BlockIngredientsOnly, BlockCautionNoDd>>}

\* "label in key"
Contains(key, label) == \E i \in DOMAIN key : key[i] = label

\* one iteration of "for dl in info_lists"
ApplyBlock(details, dl) ==
    IF dl.dt = None \/ dl.dd = None THEN details
    ELSE LET key == Strip(dl.dt)
             value == Strip(dl.dd)
         IN  IF Contains(key, "volume-of-contents") \/ Contains(key, "weight")
             THEN [details EXCEPT !["volume"] = value]
             ELSE IF Contains(key, "main-spec")
             THEN [details EXCEPT !["spec"] = value]
             ELSE IF Contains(key, "how-to-use")
             THEN [details EXCEPT !["usage"] = value]
             ELSE IF Contains(key, "ingredients") /\ Contains(key, "cosmetics-act")
             THEN [details EXCEPT !["ingredients"] = value]
             ELSE IF Contains(key, "precautions")
             THEN [details EXCEPT !["caution"] = value]
             ELSE details

\* the first n iterations
RECURSIVE ApplyBlocks(_, _, _)
ApplyBlocks(details, info_lists, n) ==
    IF n = 0 THEN details
    ELSE ApplyBlock(ApplyBlocks(details, info_lists, n - 1), info_lists[n])

\* a loop that makes one attempt more
LoopEndsOneLate(a, retries) == a > retries

\* "for attempt in range(max_retries)" is exhausted
LoopEnds(a, retries) == a >= retries

InitExtract ==
    /\ MainIdle
    /\ FnIdle
    /\ RecoveryIdle
    /\ TaxonomyIdle
    /\ OneMidIdle
    /\ d_pc = "attempt"
    /\ max_retries \in 0..MaxRetries
    /\ attempt = 0
    /\ d_details = EmptyDetails
    /\ navigations = 0
    /\ populated = FALSE
    /\ attempt_log = << >>
    /\ d_result = << >>

\* one iteration of the retry loop on a page that holds info_lists.  raise_at says
\* where the page raises: 0 in page.goto or before the first dl, i at the i-th dl
\* before its field is set, Len(info_lists) + 1 nowhere.  Every exception is caught
ExtractAttempt(info_lists, raise_at) ==
    /\ d_pc = "attempt" /\ ~LoopEnds(attempt, max_retries)
    /\ LET done == IF raise_at = 0 THEN 0 ELSE raise_at - 1
           after == ApplyBlocks(d_details, info_lists, done)
           raised == raise_at <= Len(info_lists)
       IN  /\ navigations' = navigations + 1
           /\ d_details' = after
           /\ attempt_log' = Append(attempt_log, IF raised THEN "raised" ELSE "completed")
           /\ populated' = (populated
                            \/ \E n \in 0..done : AnyDetails(ApplyBlocks(d_details, info_lists, n)))
           /\ IF ~raised /\ AnyDetails(after)
              THEN \* break
                   /\ d_pc' = "returned"
                   /\ d_result' = after
                   /\ attempt' = attempt
              ELSE \* continue, from the except clause or from the end of the body
                   /\ d_pc' = "attempt"
                   /\ d_result' = d_result
                   /\ attempt' = attempt + 1
    /\ UNCHANGED <<max_retries, mainVars, fnVars, recVars, taxVars, oneVars>>

\* the loop is exhausted: "return details"
ExtractReturn ==
    /\ d_pc = "attempt" /\ LoopEnds(attempt, max_retries)
    /\ d_pc' = "returned"
    /\ d_result' = d_details
    /\ UNCHANGED <<max_retries, attempt, d_details, navigations, populated, attempt_log,
                   mainVars, fnVars, recVars, taxVars, oneVars>>

NextExtract ==
    \/ \E info_lists \in DetailPages :
         \E raise_at \in 0..(Len(info_lists) + 1) : ExtractAttempt(info_lists, raise_at)
    \/ ExtractReturn

SpecExtract == InitExtract /\ [][NextExtract]_vars

----------------------------------------------------------------------------
(* The pure functions, applied to inputs drawn in the initial state *)

(* -- identity keys at the three sites -- *)

MaxKeyPage == 2         \* page indices 1..MaxKeyPage
MaxKeyIdx == 2          \* 0-based positions 0..MaxKeyIdx

KeyGoodsNos == {<< >>, <<"A">>, <<"B">>}
KeyUrls == {<< >>, UrlNoT, UrlT1, UrlT2, <<"/goods?", "t_number=", "0", "1", "&x">>}
KeyHandles == {<<"7">>, <<"8">>}

InitKey ==
    /\ MainIdle
    /\ RecoveryIdle
    /\ ExtractIdle
    /\ TaxonomyIdle
    /\ OneMidIdle
    /\ fn = "none"
    /\ res = << >>
    /\ \E g \in KeyGoodsNos, u \in KeyUrls, c \in KeyHandles,
          p \in 1..MaxKeyPage, i \in 0..MaxKeyIdx :
         arg = [it |-> ParseItem([goodsNo |-> g, detailUrl |-> u]),
                disp_cat_no |-> c, page_idx |-> p, idx |-> i]

\* main's first pass derives the key of items[idx]
KeyFirstPass ==
    /\ fn = "none"
    /\ fn' = "key_first_pass"
    /\ res' = GidFirstPass(arg.it, arg.disp_cat_no, arg.page_idx, arg.idx)
    /\ UNCHANGED <<arg, mainVars, recVars, detVars, taxVars, oneVars>>

\* main's retry pass derives the key of the same item: missing_idx is idx + 1
KeyRetryPass ==
    /\ fn = "none"
    /\ fn' = "key_retry_pass"
    /\ res' = GidRetryPass(arg.it, arg.disp_cat_no, arg.page_idx, arg.idx + 1)
    /\ UNCHANGED <<arg, mainVars, recVars, detVars, taxVars, oneVars>>

\* crawl_one_mid derives the key of the item
KeyOneMid ==
    /\ fn = "none"
    /\ fn' = "key_one_mid"
    /\ res' = GidOneMid(arg.it, arg.disp_cat_no, arg.page_idx)
    /\ UNCHANGED <<arg, mainVars, recVars, detVars, taxVars, oneVars>>

NextKey == KeyFirstPass \/ KeyRetryPass \/ KeyOneMid

SpecKey == InitKey /\ [][NextKey]_vars

(* -- datasets: the JSON arrays the three tools read and write -- *)

MaxDataset == 3         \* products in the dataset find_missing_t_numbers reads
MaxExpected == 4        \* expected_max ranges over 0..MaxExpected
MaxOriginal == 2        \* products in merge's original file
MaxRecovered == 2       \* products in merge's recovered file

\* t_number strings of stored products: none, and digit strings (two of them with
\* the same integer value)
TNumberStrings == {<< >>, <<"1">>, <<"0", "1">>, <<"3">>}
ProductNames == {<<"A">>, <<"B">>}

\* a stored product, as far as gap detection and merge read it
StoredProducts == [t_number : TNumberStrings, name : ProductNames]
GapProducts == [t_number : TNumberStrings \cup {<<"6">>, <<"0">>}, name : {<<"A">>}]

(* -- find_missing_t_numbers -- *)

\* the loop over products: collected_numbers
RECURSIVE CollectedNumbers(_)
CollectedNumbers(products) ==
    IF products = << >> THEN {}
    ELSE LET t_num == Head(products).t_number
         IN  (IF t_num # << >> THEN {ToInt(t_num)} ELSE {}) \cup CollectedNumbers(Tail(products))

\* range(1, expected_max): the upper end left out
find_missing_t_numbers_short(products, expected_max) ==
    Sorted((1..(expected_max - 1)) \ CollectedNumbers(products))

find_missing_t_numbers(products, expected_max) ==
    Sorted((1..expected_max) \ CollectedNumbers(products))

InitGap ==
    /\ MainIdle
    /\ RecoveryIdle
    /\ ExtractIdle
    /\ TaxonomyIdle
    /\ OneMidIdle
    /\ fn = "none"
    /\ res = << >>
    /\ \E products \in SeqsUpTo(GapProducts, MaxDataset), expected_max \in 0..MaxExpected :
         arg = [products |-> products, expected_max |-> expected_max]

FindMissing ==
    /\ fn = "none"
    /\ fn' = "find_missing_t_numbers"
    /\ res' = find_missing_t_numbers(arg.products, arg.expected_max)
    /\ UNCHANGED <<arg, mainVars, recVars, detVars, taxVars, oneVars>>

NextGap == FindMissing

SpecGap == InitGap /\ [][NextGap]_vars

(* -- merge_json_files -- *)

\* setdefault: an existing entry is kept
DictSetKeepExisting(dict, k, product) == dict @@ (k :> product)

\* products_by_tnumber[k] = product
DictSet(dict, k, product) == (k :> product) @@ dict

\* the index loop without its "if t_num" guard, an absent t_number read as 0
RECURSIVE IndexOriginalUnguarded(_, _)
IndexOriginalUnguarded(products, dict) ==
    IF products = << >> THEN dict
    ELSE IndexOriginalUnguarded(Tail(products),
                                DictSet(dict, ToInt(Head(products).t_number), Head(products)))

\* 1. index the original products by int(t_number)
RECURSIVE IndexOriginal(_, _)
IndexOriginal(products, dict) ==
    IF products = << >> THEN dict
    ELSE LET product == Head(products)
         IN  IndexOriginal(Tail(products),
                           IF product.t_number # << >>
                           THEN DictSet(dict, ToInt(product.t_number), product)
                           ELSE dict)

RECURSIVE CountWithTNumber(_)
CountWithTNumber(products) ==
    IF products = << >> THEN 0
    ELSE (IF Head(products).t_number # << >> THEN 1 ELSE 0) + CountWithTNumber(Tail(products))

\* a test that takes every key for an existing one
IsReplaceAlways(dict, k) == TRUE

\* "if t_num_int in products_by_tnumber"
IsReplace(dict, k) == k \in DOMAIN dict

\* 2. add or replace with the recovered products, counting both
RECURSIVE AddRecovered(_, _)
AddRecovered(products, acc) ==
    IF products = << >> THEN acc
    ELSE LET product == Head(products)
             k == ToInt(product.t_number)
         IN  AddRecovered(Tail(products),
               IF product.t_number = << >> THEN acc
               ELSE [dict |-> DictSet(acc.dict, k, product),
                     replaced_count |-> acc.replaced_count + (IF IsReplace(acc.dict, k) THEN 1 ELSE 0),
                     inserted_count |-> acc.inserted_count + (IF IsReplace(acc.dict, k) THEN 0 ELSE 1)])

\* the keys in descending order
SortedTNumbersDescending(dict) ==
    LET up == Sorted(DOMAIN dict) IN [i \in DOMAIN up |-> up[Len(up) + 1 - i]]

\* 3. sorted(products_by_tnumber.keys())
SortedTNumbers(dict) == Sorted(DOMAIN dict)

\* the absent keys of [1, max]
StillMissingFromOne(sorted_t_numbers) ==
    IF sorted_t_numbers = << >> THEN << >>
    ELSE Sorted((1..sorted_t_numbers[Len(sorted_t_numbers)]) \ Range(sorted_t_numbers))

\* 4. the keys of [min, max] that are still absent
StillMissing(sorted_t_numbers) ==
    IF sorted_t_numbers = << >> THEN << >>
    ELSE Sorted((sorted_t_numbers[1]..sorted_t_numbers[Len(sorted_t_numbers)])
                \ Range(sorted_t_numbers))

\* the load of the recovered file without its except clause
LoadRecoveredUncaught(recovered) ==
    [raised |-> ~recovered.exists, products |-> recovered.products]

\* "try: ... json.load(f) except FileNotFoundError: recovered_products = []"
LoadRecovered(recovered) ==
    [raised |-> FALSE, products |-> IF recovered.exists THEN recovered.products ELSE << >>]

\* recovered is [exists, products]: a missing recovered file reads as []
merge_json_files(original_products, recovered) ==
    LET loaded == LoadRecovered(recovered)
        recovered_products == loaded.products
        indexed == IndexOriginal(original_products, << >>)
        added == AddRecovered(recovered_products,
                              [dict |-> indexed, replaced_count |-> 0, inserted_count |-> 0])
        sorted_t_numbers == SortedTNumbers(added.dict)
    IN  IF loaded.raised
        THEN [raised |-> "FileNotFoundError"]
        ELSE [merged_products |->
                  [i \in DOMAIN sorted_t_numbers |-> added.dict[sorted_t_numbers[i]]],
              original_count |-> CountWithTNumber(original_products),
              recovered_count |-> Len(recovered_products),
              inserted_count |-> added.inserted_count,
              replaced_count |-> added.replaced_count,
              still_missing |-> StillMissing(sorted_t_numbers)]

InitMerge ==
    /\ MainIdle
    /\ RecoveryIdle
    /\ ExtractIdle
    /\ TaxonomyIdle
    /\ OneMidIdle
    /\ fn = "none"
    /\ res = << >>
    /\ \E original \in SeqsUpTo(StoredProducts, MaxOriginal),
          recovered \in {[exists |-> FALSE, products |-> << >>]}
                        \cup {[exists |-> TRUE, products |-> r] :
                                r \in SeqsUpTo(StoredProducts, MaxRecovered)} :
         arg = [original |-> original, recovered |-> recovered]

MergeJsonFiles ==
    /\ fn = "none"
    /\ fn' = "merge_json_files"
    /\ res' = merge_json_files(arg.original, arg.recovered)
    /\ UNCHANGED <<arg, mainVars, recVars, detVars, taxVars, oneVars>>

NextMerge == MergeJsonFiles

SpecMerge == InitMerge /\ [][NextMerge]_vars

(* -- prices: parse_products_from_fragment, then preprocess.py -- *)

MaxPriceLen == 3
MaxOrgPriceLen == 1

\* the characters of a price text: digits, the thousands separator, the currency
\* sign and a blank
PriceChars == {"0", "1", "2", ",", "won", " "}

\* the text of the price node of a non-sale item
TwelveThousand == <<"1", "2", ",", "0", "0", "0", "won">>

\* textContent of the current price node, '' when the node is missing
PriceCurRaws == SeqsUpTo(PriceChars, MaxPriceLen) \cup {TwelveThousand}

\* textContent of the original price node, '' when the node is missing
PriceOrgRaws == SeqsUpTo(PriceChars, MaxOrgPriceLen) \cup {TwelveThousand}

\* re.sub(r"[^\d]", "", s)
RECURSIVE StripNonDigits(_)
StripNonDigits(s) ==
    IF s = << >> THEN << >>
    ELSE (IF IsDigit(s[1]) THEN <<s[1]>> ELSE << >>) \o StripNonDigits(Tail(s))

\* the original price is never filled in
FillOriginalNever(price_org, price_cur) == price_org

\* "if not price_org and price_cur: price_org = price_cur"
FillOriginal(price_org, price_cur) ==
    IF price_org = << >> /\ price_cur # << >> THEN price_cur ELSE price_org

\* the two price fields of a summary of parse_products_from_fragment: digit strings
FragmentPrices(price_org_raw, price_cur_raw) ==
    LET price_org == StripNonDigits(price_org_raw)
        price_cur == StripNonDigits(price_cur_raw)
    IN  [price_org |-> FillOriginal(price_org, price_cur), price_cur |-> price_cur]

\* Python values of preprocess.py: an int and None
PyInt(n) == [type |-> "int", v |-> n]
PyNone == [type |-> "NoneType", v |-> 0]

\* preprocess.parse_price(value) of a string
parse_price(value) ==
    LET s == StripNonDigits(value)
    IN  IF s = << >> THEN PyNone ELSE PyInt(ToInt(s))

InitPrice ==
    /\ MainIdle
    /\ RecoveryIdle
    /\ ExtractIdle
    /\ TaxonomyIdle
    /\ OneMidIdle
    /\ fn = "none"
    /\ res = << >>
    /\ \E o \in PriceOrgRaws, c \in PriceCurRaws :
         arg = [price_org_raw |-> o, price_cur_raw |-> c]

\* the summary is parsed from the listing, written to the dataset and read by
\* preprocess.main, which replaces the two prices by parse_price of them
NormalizePrices ==
    /\ fn = "none"
    /\ fn' = "normalize_prices"
    /\ LET item == FragmentPrices(arg.price_org_raw, arg.price_cur_raw)
       IN  res' = [price_org |-> parse_price(item.price_org),
                   price_cur |-> parse_price(item.price_cur)]
    /\ UNCHANGED <<arg, mainVars, recVars, detVars, taxVars, oneVars>>

NextPrice == NormalizePrices

SpecPrice == InitPrice /\ [][NextPrice]_vars

(* -- category.py: the first-level keys of the start page -- *)

MaxAnchors == 3
MaxUniqLen == 3

Quotes == {"'", "\""}

\* the key of a first-level category: the prefix "big_" stands for the prefix of
\* FIRST_PAT's group
BigSkin == <<"big_", "skin">>
BigHair == <<"big_", "hair">>
BigMakeUp == <<"big_", "make", "up">>

\* hrefs of the anchors 'a[href^="javascript:common.link.moveCategoryShop"]'
HrefSkin == <<"moveCategoryShop(", "t_1st_category_type:", " ", "'", "big_", "skin", "'", ")">>
HrefHair == <<"moveCategoryShop(", "t_1st_category_type:", "\"", "big_", "hair", "\"", ")">>
HrefMakeUp == <<"moveCategoryShop(", "t_1st_category_type:", "'", "big_", "make", "up", "'", ")">>
HrefSkinToner == <<"moveCategoryShop(", "t_1st_category_type:", "'", "big_", "skin", "'", ",",
                   "t_2nd_category_type:", "'", "mid_", "toner", "'", ")">>
HrefNoKey == <<"moveCategoryShop(", ")">>
HrefEmptyName == <<"moveCategoryShop(", "t_1st_category_type:", "'", "big_", "'", ")">>
HrefUnterminated == <<"moveCategoryShop(", "t_1st_category_type:", "'", "big_", "skin">>

FirstAnchors == {HrefSkin, HrefHair, HrefMakeUp, HrefSkinToner, HrefNoKey, HrefEmptyName,
                 HrefUnterminated, << >>}

\* what uniq_keep_order is given: keys, and the empty string
UniqItems == {BigSkin, BigHair, << >>}

\* the maximal run of tokens other than a quote starting at position i
RECURSIVE UnquotedRun(_, _)
UnquotedRun(s, i) == IF i > Len(s) \/ s[i] \in Quotes THEN << >>
                     ELSE <<s[i]>> \o UnquotedRun(s, i + 1)

\* the first position from i on that holds no whitespace
RECURSIVE SkipWhitespace(_, _)
SkipWhitespace(s, i) == IF i <= Len(s) /\ s[i] \in Whitespace THEN SkipWhitespace(s, i + 1) ELSE i

\* group 1 of FIRST_PAT matched at position i of href, << >> when it does not match
\* there: the literal, \s*, a quote, the prefix, [^'"]+ and a quote
FirstPatAt(href, i) ==
    LET q == SkipWhitespace(href, i + 1)
        run == UnquotedRun(href, q + 2)
    IN  IF /\ href[i] = "t_1st_category_type:"
           /\ q + 1 <= Len(href)
           /\ href[q] \in Quotes
           /\ href[q + 1] = "big_"
           /\ run # << >>
           /\ q + 2 + Len(run) <= Len(href)
        THEN <<"big_">> \o run
        ELSE << >>

\* FIRST_PAT.search(href): group 1 of the leftmost match, << >> for no match
FirstPatSearch(href) ==
    LET at == {i \in DOMAIN href : FirstPatAt(href, i) # << >>}
    IN  IF at = {} THEN << >>
        ELSE FirstPatAt(href, CHOOSE i \in at : \A j \in at : i <= j)

\* "for a in anchors: ... if m: firsts.append(m.group(1))"
RECURSIVE FirstsOf(_)
FirstsOf(anchors) ==
    IF anchors = << >> THEN << >>
    ELSE LET m == FirstPatSearch(Head(anchors))
         IN  (IF m # << >> THEN <<m>> ELSE << >>) \o FirstsOf(Tail(anchors))

\* the loop of uniq_keep_order from the state (seen, out), out left implicit
RECURSIVE UniqFrom(_, _)
UniqFrom(items_, seen) ==
    IF items_ = << >> THEN << >>
    ELSE LET x == Head(items_)
         IN  IF x # << >> /\ x \notin seen
             THEN <<x>> \o UniqFrom(Tail(items_), seen \cup {x})
             ELSE UniqFrom(Tail(items_), seen)

\* a de-duplication that keeps the last occurrence of each item
RECURSIVE uniq_keep_last(_)
uniq_keep_last(items_) ==
    IF items_ = << >> THEN << >>
    ELSE LET x == Head(items_)
         IN  (IF x # << >> /\ \A i \in 2..Len(items_) : items_[i] # x THEN <<x>> ELSE << >>)
                 \o uniq_keep_last(Tail(items_))

\* category.uniq_keep_order(items_)
uniq_keep_order(items_) == UniqFrom(items_, {})

\* category.extract_first_categories(page) on a page with these anchors
extract_first_categories(anchors) == uniq_keep_order(FirstsOf(anchors))

InitUniq ==
    /\ MainIdle
    /\ RecoveryIdle
    /\ ExtractIdle
    /\ TaxonomyIdle
    /\ OneMidIdle
    /\ fn = "none"
    /\ res = << >>
    /\ \/ \E a \in SeqsUpTo(FirstAnchors, MaxAnchors) : arg = [anchors |-> a]
       \/ \E s \in SeqsUpTo(UniqItems, MaxUniqLen) : arg = [items |-> s]

ExtractFirstCategories ==
    /\ fn = "none" /\ "anchors" \in DOMAIN arg
    /\ fn' = "extract_first_categories"
    /\ res' = extract_first_categories(arg.anchors)
    /\ UNCHANGED <<arg, mainVars, recVars, detVars, taxVars, oneVars>>

UniqKeepOrder ==
    /\ fn = "none" /\ "items" \in DOMAIN arg
    /\ fn' = "uniq_keep_order"
    /\ res' = uniq_keep_order(arg.items)
    /\ UNCHANGED <<arg, mainVars, recVars, detVars, taxVars, oneVars>>

NextUniq == ExtractFirstCategories \/ UniqKeepOrder

SpecUniq == InitUniq /\ [][NextUniq]_vars

(* -- category.py, crawl_all_with_playwright(): the taxonomy crawl -- *)

\* the first-level key in the query of BASE_URL
BaseUrlFirst == BigSkin

\* anchors the start page may hold
TaxonomyHomePages == {<< >>, <<HrefNoKey>>, <<HrefHair>>, <<HrefSkin, HrefHair, HrefSkinToner>>}

\* what extract_second_categories may return for the page of a first-level key
MidsOutcomes == {<< >>, <<<<"toner">>>>, <<<<"toner">>, <<"cream">>>>}

InitTaxonomy ==
    /\ MainIdle
    /\ FnIdle
    /\ RecoveryIdle
    /\ ExtractIdle
    /\ OneMidIdle
    /\ t_pc = "start"
    /\ t_context = "none"
    /\ first_keys = << >>
    /\ t_i = 1
    /\ t_result = << >>
    /\ t_acquired = 0

\* p.chromium.launch, browser.new_context, context.new_page
TaxonomyStart ==
    /\ t_pc = "start"
    /\ t_pc' = "home"
    /\ t_context' = "open"
    /\ t_acquired' = t_acquired + 1
    /\ UNCHANGED <<first_keys, t_i, t_result, mainVars, fnVars, recVars, detVars, oneVars>>

\* steps 1 and 2: the start page is loaded and holds these anchors; with no
\* first-level anchor the key is taken from the query of base_url
TaxonomyHome(anchors) ==
    /\ t_pc = "home"
    /\ t_pc' = "first"
    /\ first_keys' = (LET keys == extract_first_categories(anchors)
                      IN  IF keys = << >> THEN <<BaseUrlFirst>> ELSE keys)
    /\ t_i' = 1
    /\ UNCHANGED <<t_context, t_result, t_acquired, mainVars, fnVars, recVars, detVars, oneVars>>

\* step 3, one iteration: navigate to the page of the key, result[first] = mids
TaxonomyVisitFirst(mids) ==
    /\ t_pc = "first" /\ t_i <= Len(first_keys)
    /\ t_result' = Append(t_result, [first |-> first_keys[t_i], mids |-> mids])
    /\ t_i' = t_i + 1
    /\ UNCHANGED <<t_pc, t_context, first_keys, t_acquired, mainVars, fnVars, recVars,
                   detVars, oneVars>>

\* page.goto in navigate raises: nothing catches it and the function is left
\* through the exit handler of the block
TaxonomyNavigationRaises ==
    /\ \/ t_pc = "home"
       \/ (t_pc = "first" /\ t_i <= Len(first_keys))
    /\ t_pc' = "crashed"
    /\ t_context' = ExitHandler(t_context)
    /\ UNCHANGED <<first_keys, t_i, t_result, t_acquired, mainVars, fnVars, recVars,
                   detVars, oneVars>>

\* after the loop: context.close(), browser.close(), return result
TaxonomyFinish ==
    /\ t_pc = "first" /\ t_i > Len(first_keys)
    /\ t_pc' = "done"
    /\ t_context' = ContextClose(t_context)
    /\ UNCHANGED <<first_keys, t_i, t_result, t_acquired, mainVars, fnVars, recVars,
                   detVars, oneVars>>

NextTaxonomy ==
    \/ TaxonomyStart
    \/ \E anchors \in TaxonomyHomePages : TaxonomyHome(anchors)
    \/ \E mids \in MidsOutcomes : TaxonomyVisitFirst(mids)
    \/ TaxonomyNavigationRaises
    \/ TaxonomyFinish

SpecTaxonomy == InitTaxonomy /\ [][NextTaxonomy]_vars

(* -- any of the three crawls is run -- *)

InitContexts == Init \/ InitRecovery \/ InitTaxonomy

NextContexts == Next \/ NextRecovery \/ NextTaxonomy

SpecContexts == InitContexts /\ [][NextContexts]_vars

(* -- choose_disp_for_target(mid_rows, target_mid_name) -- *)

MaxRows == 2

fuzzy_threshold == 72      \* the default 0.72, in hundredths

\* names of one-character tokens, so that difflib's character blocks are token blocks
RowNames == {<<"T", "n">>, <<" ", "t", "_", "n">>, <<"T", "n", "x">>, <<"T", "x", "n">>,
             <<"T", "m">>, <<"_">>}
TargetNames == {<<"T", "n">>, <<"t", "n", "x">>, << >>}
RowHandles == {<<"7">>, <<"8">>}

MidRows == [mid_name : RowNames, dispCatNo : RowHandles]

\* the code points of the characters of the names
CodePoint == [c \in {" ", "T", "_", "m", "n", "t", "x"} |->
                CASE c = " " -> 32 [] c = "T" -> 84 [] c = "_" -> 95 [] c = "m" -> 109
                  [] c = "n" -> 110 [] c = "t" -> 116 [] c = "x" -> 120]

\* s < t for Python strings
RECURSIVE StrLess(_, _)
StrLess(s, t) ==
    IF t = << >> THEN FALSE
    ELSE IF s = << >> THEN TRUE
    ELSE IF s[1] # t[1] THEN CodePoint[s[1]] < CodePoint[t[1]]
    ELSE StrLess(Tail(s), Tail(t))

\* a[i .. i+k-1] == b[j .. j+k-1]
BlockAt(a, i, b, j, k) == \A d \in 0..(k - 1) : a[i + d] = b[j + d]

\* SequenceMatcher.find_longest_match on a[alo..ahi] and b[blo..bhi] without junk:
\* a longest common block, the one that starts earliest in a and, of those,
\* earliest in b; <<alo, blo, 0>> when there is none
FindLongestMatch(a, alo, ahi, b, blo, bhi) ==
    LET blocks == {m \in (alo..ahi) \X (blo..bhi) \X (1..(ahi - alo + 1)) :
                      /\ m[1] + m[3] - 1 <= ahi
                      /\ m[2] + m[3] - 1 <= bhi
                      /\ BlockAt(a, m[1], b, m[2], m[3])}
    IN  IF blocks = {} THEN <<alo, blo, 0>>
        ELSE CHOOSE m \in blocks :
               \A o \in blocks :
                  \/ m[3] > o[3]
                  \/ (m[3] = o[3] /\ m[1] < o[1])
                  \/ (m[3] = o[3] /\ m[1] = o[1] /\ m[2] <= o[2])

\* the sum of the sizes of get_matching_blocks: the longest block, then the same
\* to the left and to the right of it
RECURSIVE MatchingSize(_, _, _, _, _, _)
MatchingSize(a, alo, ahi, b, blo, bhi) ==
    IF alo > ahi \/ blo > bhi THEN 0
    ELSE LET m == FindLongestMatch(a, alo, ahi, b, blo, bhi)
         IN  IF m[3] = 0 THEN 0
             ELSE m[3] + MatchingSize(a, alo, m[1] - 1, b, blo, m[2] - 1)
                       + MatchingSize(a, m[1] + m[3], ahi, b, m[2] + m[3], bhi)

\* SequenceMatcher(None, a, b).ratio() as a fraction: 2.0 * matches / length, 1.0
\* for two empty strings
Ratio(a, b) ==
    IF Len(a) + Len(b) = 0 THEN [num |-> 1, den |-> 1]
    ELSE [num |-> 2 * MatchingSize(a, 1, Len(a), b, 1, Len(b)), den |-> Len(a) + Len(b)]

\* r >= cutoff / 100; no quotient of these lengths is within rounding of 0.72
AtLeast(r, cutoff) == r.num * 100 >= cutoff * r.den

\* (score, x) < (score', x') for the tuples get_close_matches ranks
ScoredLess(r, x, q, y) ==
    \/ r.num * q.den < q.num * r.den
    \/ (r.num * q.den = q.num * r.den /\ StrLess(x, y))

\* difflib.get_close_matches(word, possibilities, n=1, cutoff): the possibility of
\* the largest (ratio, string), << >> for an empty list; set_seq1 is the
\* possibility, set_seq2 the word
GetCloseMatch(word, possibilities, cutoff) ==
    LET close == {x \in Range(possibilities) : AtLeast(Ratio(x, word), cutoff)}
    IN  IF close = {} THEN << >>
        ELSE <<CHOOSE x \in close :
                 \A y \in close : ~ScoredLess(Ratio(x, word), x, Ratio(y, word), y)>>

\* "for r in mid_rows: if ...: return": the first of the rows that pass the test,
\* 0 when none does
FirstRow(hits) == IF hits = {} THEN 0 ELSE CHOOSE i \in hits : \A j \in hits : i <= j

\* the fuzzy tier is tried first
choose_disp_fuzzy_first(mid_rows, target_mid_name) ==
    LET target_n == norm(target_mid_name)
        best == GetCloseMatch(target_mid_name, [i \in DOMAIN mid_rows |-> mid_rows[i].mid_name],
                              fuzzy_threshold)
        fuzzy == IF best = << >> THEN 0
                 ELSE FirstRow({i \in DOMAIN mid_rows : mid_rows[i].mid_name = best[1]})
        exact_norm == FirstRow({i \in DOMAIN mid_rows : norm(mid_rows[i].mid_name) = target_n})
    IN  IF fuzzy # 0 THEN [dispCatNo |-> mid_rows[fuzzy].dispCatNo, how |-> "fuzzy"]
        ELSE IF exact_norm # 0
        THEN [dispCatNo |-> mid_rows[exact_norm].dispCatNo, how |-> "exact_norm"]
        ELSE [dispCatNo |-> None, how |-> "none"]

\* choose_disp_for_target: normalized match, raw match, fuzzy match, (None, "none")
choose_disp_for_target(mid_rows, target_mid_name) ==
    LET target_n == norm(target_mid_name)
        exact_norm == FirstRow({i \in DOMAIN mid_rows : norm(mid_rows[i].mid_name) = target_n})
        exact_raw == FirstRow({i \in DOMAIN mid_rows : mid_rows[i].mid_name = target_mid_name})
        candidates == [i \in DOMAIN mid_rows |-> mid_rows[i].mid_name]
        best == GetCloseMatch(target_mid_name, candidates, fuzzy_threshold)
        fuzzy == IF best = << >> THEN 0
                 ELSE FirstRow({i \in DOMAIN mid_rows : mid_rows[i].mid_name = best[1]})
    IN  IF exact_norm # 0
        THEN [dispCatNo |-> mid_rows[exact_norm].dispCatNo, how |-> "exact_norm"]
        ELSE IF exact_raw # 0
        THEN [dispCatNo |-> mid_rows[exact_raw].dispCatNo, how |-> "exact_raw"]
        ELSE IF fuzzy # 0
        THEN [dispCatNo |-> mid_rows[fuzzy].dispCatNo, how |-> "fuzzy"]
        ELSE [dispCatNo |-> None, how |-> "none"]

InitChoose ==
    /\ MainIdle
    /\ RecoveryIdle
    /\ ExtractIdle
    /\ TaxonomyIdle
    /\ OneMidIdle
    /\ fn = "none"
    /\ res = << >>
    /\ \E rows \in SeqsUpTo(MidRows, MaxRows), t \in TargetNames :
         arg = [mid_rows |-> rows, target_mid_name |-> t]

ChooseDispForTarget ==
    /\ fn = "none"
    /\ fn' = "choose_disp_for_target"
    /\ res' = choose_disp_for_target(arg.mid_rows, arg.target_mid_name)
    /\ UNCHANGED <<arg, mainVars, recVars, detVars, taxVars, oneVars>>

NextChoose == ChooseDispForTarget

SpecChoose == InitChoose /\ [][NextChoose]_vars

(* -- handle resolution: inline in the two crawls, and choose_disp_for_target -- *)

MaxLinks == 2

\* a[href*="moveCategory"] links: a text and an href with or without a handle
ResolveLinks == [text : RowNames, href : {Href(<<"7">>), Href(<<"8">>), <<"moveCategory('">>}]

InitResolve ==
    /\ MainIdle
    /\ RecoveryIdle
    /\ ExtractIdle
    /\ TaxonomyIdle
    /\ OneMidIdle
    /\ fn = "none"
    /\ res = << >>
    /\ \E links \in SeqsUpTo(ResolveLinks, MaxLinks), t \in TargetNames :
         arg = [mid_links |-> links, mid_name |-> t]

\* main resolves the handle of mid_name from the links of the category page
ResolveInMain ==
    /\ fn = "none"
    /\ fn' = "resolve_in_main"
    /\ res' = ResolveInline(arg.mid_links, arg.mid_name)
    /\ UNCHANGED <<arg, mainVars, recVars, detVars, taxVars, oneVars>>

\* the recovery crawl does the same
ResolveInRecovery ==
    /\ fn = "none"
    /\ fn' = "resolve_in_recovery"
    /\ res' = ResolveInlineRecovery(arg.mid_links, arg.mid_name)
    /\ UNCHANGED <<arg, mainVars, recVars, detVars, taxVars, oneVars>>

NextResolve == ResolveInMain \/ ResolveInRecovery

SpecResolve == InitResolve /\ [][NextResolve]_vars

(* -- crawl_one_mid(page, first_key, mid_name, disp_cat_no): the paginator -- *)

\* the arguments of the call
OneMidFirstKey == <<"P">>
OneMidName == <<"T", "n">>
OneMidHandle == <<"7">>

\* what the site may answer the fetch of page p: a page with a product not listed
\* before, the product of page 1 again, or no product element; the site has
\* PageCeiling + MaxBeyond pages
OneMidPages(p) ==
    IF p <= PageCeiling + MaxBeyond THEN {DeepPage(p), DeepPage(1), << >>} ELSE {<< >>}

\* "for it in items": the ledger, the list and the counter new after the loop
RECURSIVE OneMidItems(_, _, _, _, _)
OneMidItems(its, seen, all, new, page) ==
    IF its = << >> THEN [seen |-> seen, all |-> all, new |-> new]
    ELSE LET it == Head(its)
             gid == GidOneMid(it, OneMidHandle, page)
         IN  IF gid \in seen
             THEN OneMidItems(Tail(its), seen, all, new, page)
             ELSE OneMidItems(Tail(its), seen \cup {gid},
                              Append(all, [goodsNo |-> it.goodsNo, detailUrl |-> it.detailUrl,
                                           t_number |-> it.t_number,
                                           first_category |-> OneMidFirstKey,
                                           mid_category |-> OneMidName,
                                           page_idx |-> page]),
                              new + 1, page)

InitOneMid ==
    /\ MainIdle
    /\ FnIdle
    /\ RecoveryIdle
    /\ ExtractIdle
    /\ TaxonomyIdle
    /\ o_pc = "loop"
    /\ o_page_idx = 1
    /\ o_seen_goods = {}
    /\ o_all_items = << >>
    /\ o_fetched = << >>
    /\ o_stop = ""

\* one iteration of "while True" when the site answers the fetch with pg: break on
\* no product element, the item loop, break on new == 0, page_idx += 1
OneMidPage(pg) ==
    /\ o_pc = "loop"
    /\ o_fetched' = Append(o_fetched, o_page_idx)
    /\ IF pg = << >>
       THEN /\ o_pc' = "returned"
            /\ o_stop' = "empty"
            /\ UNCHANGED <<o_page_idx, o_seen_goods, o_all_items>>
       ELSE LET after == OneMidItems(parse_products_from_fragment(pg), o_seen_goods,
                                     o_all_items, 0, o_page_idx)
            IN  /\ o_seen_goods' = after.seen
                /\ o_all_items' = after.all
                /\ IF after.new = 0
                   THEN /\ o_pc' = "returned"
                        /\ o_stop' = "no_new"
                        /\ o_page_idx' = o_page_idx
                   ELSE /\ o_pc' = "loop"
                        /\ o_stop' = o_stop
                        /\ o_page_idx' = o_page_idx + 1
    /\ UNCHANGED <<mainVars, fnVars, recVars, detVars, taxVars>>

NextOneMid == \E pg \in OneMidPages(o_page_idx) : OneMidPage(pg)

SpecOneMid == InitOneMid /\ [][NextOneMid]_vars

(* -- build_product_list_url and its three call sites -- *)

MaxUrlPage == 4

UrlFirstKeys == {<<"big_", "skin">>, <<"big_", "hair">>}
UrlMidNames == {<<"T", "n">>, <<"S", "/", "m">>}
UrlHandles == {<<"7">>, <<"8">>}

\* urllib.parse.quote with no safe character, per character: what is not
\* unreserved becomes its percent escape
QuoteChar(c) == CASE c = "/" -> "%2F" [] c = " " -> "%20" [] c = ":" -> "%3A" [] OTHER -> c

Quote(s) == [i \in DOMAIN s |-> QuoteChar(s[i])]

\* build_product_list_url(first_key, mid_name, page_idx, disp_cat_no): the query
\* after urlencode, which applies str() and quote to every value; page_idx_ and
\* disp_cat_no_ are the str() of the arguments.  "category-hall" and
\* "mid-category-detail" stand for the two fixed Korean values, "mid_" for the
\* prefix of the second-level name
build_product_list_url(first_key, mid_name_, page_idx_, disp_cat_no_) ==
    [dispCatNo |-> Quote(disp_cat_no_),
     fltDispCatNo |-> << >>,
     prdSort |-> <<"0", "1">>,
     pageIdx |-> Quote(page_idx_),
     rowsPerPage |-> <<"2", "4">>,
     searchTypeSort |-> <<"btn_thumb">>,
     plusButtonFlag |-> <<"N">>,
     isLoginCnt |-> <<"0">>,
     aShowCnt |-> <<"0">>,
     bShowCnt |-> <<"0">>,
     cShowCnt |-> <<"0">>,
     trackingCd |-> Quote(<<"Cat">> \o disp_cat_no_ \o <<"_Small">>),
     t_page |-> <<"category-hall">>,
     t_click |-> <<"mid-category-detail">>,
     t_1st_category_type |-> Quote(first_key),
     t_2nd_category_type |-> Quote(<<"mid_">> \o mid_name_)]

InitUrl ==
    /\ MainIdle
    /\ RecoveryIdle
    /\ ExtractIdle
    /\ TaxonomyIdle
    /\ OneMidIdle
    /\ fn = "none"
    /\ res = << >>
    /\ \E f \in UrlFirstKeys, m \in UrlMidNames, h \in UrlHandles, i \in 1..MaxUrlPage :
         arg = [first_key |-> f, mid_name |-> m, disp_cat_no |-> h, page_idx |-> i]

\* main: build_product_list_url(primary, mid_name, page_idx, disp_cat_no)
UrlInMain ==
    /\ fn = "none"
    /\ fn' = "url_in_main"
    /\ res' = build_product_list_url(arg.first_key, arg.mid_name, Str(arg.page_idx),
                                     arg.disp_cat_no)
    /\ UNCHANGED <<arg, mainVars, recVars, detVars, taxVars, oneVars>>

\* the recovery crawl: the same call
UrlInRecovery ==
    /\ fn = "none"
    /\ fn' = "url_in_recovery"
    /\ res' = build_product_list_url(arg.first_key, arg.mid_name, Str(arg.page_idx),
                                     arg.disp_cat_no)
    /\ UNCHANGED <<arg, mainVars, recVars, detVars, taxVars, oneVars>>

\* crawl_one_mid: build_product_list_url(disp_cat_no, first_key, mid_name, page_idx)
UrlInOneMid ==
    /\ fn = "none"
    /\ fn' = "url_in_one_mid"
    /\ res' = build_product_list_url(arg.disp_cat_no, arg.first_key, arg.mid_name,
                                     Str(arg.page_idx))
    /\ UNCHANGED <<arg, mainVars, recVars, detVars, taxVars, oneVars>>

NextUrl == UrlInMain \/ UrlInRecovery \/ UrlInOneMid

SpecUrl == InitUrl /\ [][NextUrl]_vars

(* -- the reconciliation: find_missing_t_numbers, the recovery crawl, merge_json_files -- *)

MaxReconcileOriginal == 2       \* products in the original dataset

ReconcileProducts ==
    [t_number : {<< >>, <<"0", "1">>, <<"3">>}, name : {<<"A">>}]

\* an open that never finds the file
OpenRecoveredNever(file) == [exists |-> FALSE, products |-> << >>]

\* open(recovered_path): the file the recovery crawl wrote, if it wrote one
OpenRecovered(file) ==
    [exists |-> file # NoFile, products |-> IF file # NoFile THEN file ELSE << >>]

\* missing = find_missing_t_numbers(out, expected_max); "if missing:" the recovery
\* crawl is called with it
InitReconcile ==
    /\ MainIdle
    /\ ExtractIdle
    /\ TaxonomyIdle
    /\ OneMidIdle
    /\ fn = "none"
    /\ res = << >>
    /\ \E products \in SeqsUpTo(ReconcileProducts, MaxReconcileOriginal),
          expected_max \in 1..MaxMissingId :
         LET missing == find_missing_t_numbers(products, expected_max)
         IN  /\ arg = [products |-> products, expected_max |-> expected_max]
             /\ missing # << >>
             /\ InitRecoveryWith(missing)

\* the recovery crawl has returned its triple: merge_json_files reads the original
\* and the recovered file
ReconcileMerge ==
    /\ fn = "none"
    /\ rpc = "returned" /\ r_result.kind = "triple"
    /\ fn' = "merge_json_files"
    /\ res' = merge_json_files(arg.products, OpenRecovered(recovered_file))
    /\ UNCHANGED <<arg, mainVars, recVars, detVars, taxVars, oneVars>>

NextReconcile ==
    \/ NextRecovery
    \/ ReconcileMerge

SpecReconcile == InitReconcile /\ [][NextReconcile]_vars

----------------------------------------------------------------------------
(* Claims *)

\* how often key k was the key of an append to all_products
Admissions(k) == Cardinality({i \in DOMAIN admit_log : admit_log[i] = k})

\* C1: in main, a key that is admitted (it is in the global ledger, or a product was
\* appended under it) has exactly one record in the output: a later encounter of a
\* key that is still in a ledger is skipped.
C1_OneRecordPerKey ==
    \A k \in global_seen \cup Range(admit_log) : Admissions(k) = 1

\* the part of C1 that the code keeps: keys made of a t_number or a goodsNo
C1_OneRecordPerIdKey ==
    \A k \in global_seen \cup Range(admit_log) : k[1] \in {"t_", "g_"} => Admissions(k) = 1

\* the key the first pass gave the item the retry pass is at
RetryItemFirstPassKey ==
    GidFirstPass(items[Head(retry_queue)], disp_cat_no, page_idx, Head(retry_queue) - 1)

\* C2: in main's first pass a failed enrichment (no details, or an exception) leaves
\* the key in neither ledger and appends nothing, and the next encounter of the
\* identity is admitted again: by the retry pass of the same page too, which meets
\* an item whose key is in neither ledger only after such a rollback.
C2_RollbackReadmits ==
    [][/\ (pc = "item" /\ step' \in {"rollback_empty", "rollback_error", "key_error"})
            => LET gid == GidFirstPass(items[idx + 1], disp_cat_no, page_idx, idx)
               IN  /\ gid \notin seen_goods' /\ gid \notin global_seen'
                   /\ all_products' = all_products
       /\ (pc = "retry" /\ retry_queue # << >> /\ retry_queue' # retry_queue
           /\ ~InLedgers(RetryItemFirstPassKey, global_seen, seen_goods))
            => Len(all_products') = Len(all_products) + 1
      ]_vars

\* the ledger half of C2 alone
C2_RollbackClearsLedgers ==
    [][(pc = "item" /\ step' \in {"rollback_empty", "rollback_error", "key_error"})
            => LET gid == GidFirstPass(items[idx + 1], disp_cat_no, page_idx, idx)
               IN  /\ gid \notin seen_goods' /\ gid \notin global_seen'
                   /\ all_products' = all_products
      ]_vars

\* the product carries the five detail keys and every one is empty
AllFiveEmpty(p) ==
    /\ DOMAIN p.details = DetailFields
    /\ \A f \in DetailFields : p.details[f] = << >>

\* C3 as stated: with detail fetching enabled, no product whose five detail fields
\* are all empty is in the output list.
C3_NoEmptyDetailsInOutput ==
    fetch_details => \A i \in DOMAIN all_products : ~AllFiveEmpty(all_products[i])

\* C3 amended: with detail fetching enabled, a product whose five detail fields are
\* all empty is appended by the in-page retry pass only, never by the first pass.
C3_EmptyDetailsOnlyByRetry ==
    [][(fetch_details /\ Len(all_products') > Len(all_products)
        /\ AllFiveEmpty(all_products'[Len(all_products')]))
            => (pc = "retry" /\ step' = "retry_append")
      ]_vars

\* the first pass met empty details and appended nothing
C3_Witness ==
    /\ fetch_details
    /\ step = "rollback_empty"
    /\ pc = "item" /\ idx >= 1 /\ items[idx].detailUrl # << >>

\* C4: the output of main never holds two records with the same non-empty t_number.
C4_UniqueTNumbers ==
    \A i, j \in DOMAIN all_products :
        (i # j /\ all_products[i].t_number # << >>)
            => all_products[i].t_number # all_products[j].t_number

\* a t_number that is in the output was met again, in a later category, and skipped
C4_Witness ==
    /\ step = "skip" /\ pc = "item" /\ idx >= 1
    /\ items[idx].t_number # << >>
    /\ \E i \in DOMAIN all_products :
         /\ all_products[i].t_number = items[idx].t_number
         /\ all_products[i].mid_category # mid_name

KeySites == {"key_first_pass", "key_retry_pass", "key_one_mid"}

\* C5: at the three sites a summary with a non-empty t_number gets "t_" + t_number.
C5_TNumberKey ==
    (fn \in KeySites /\ arg.it.t_number # << >>) => res = <<"t_">> \o arg.it.t_number

\* crawl_one_mid keyed a summary that has a t_number and a goodsNo
C5_Witness ==
    /\ fn = "key_one_mid"
    /\ arg.it.t_number = <<"0", "1">> /\ arg.it.goodsNo # << >>
    /\ res = <<"t_", "0", "1">>

\* C6: at the three sites a summary with an empty t_number and a non-empty goodsNo
\* gets "g_" + goodsNo.
C6_GoodsNoKey ==
    (fn \in KeySites /\ arg.it.t_number = << >> /\ arg.it.goodsNo # << >>)
        => res = <<"g_">> \o arg.it.goodsNo

\* the integers the products of a dataset carry as t_number
TNumbersOf(products) ==
    {ToInt(products[i].t_number) : i \in {j \in DOMAIN products : products[j].t_number # << >>}}

StrictlyAscending(ns) == \A i, j \in DOMAIN ns : i < j => ns[i] < ns[j]

\* C7: find_missing_t_numbers returns, ascending and without duplicates, exactly the
\* n of 1..expected_max that no product carries as t_number, and leaves the dataset
\* as it was.
C7_FindMissing ==
    [][fn' = "find_missing_t_numbers"
            => /\ StrictlyAscending(res')
               /\ Range(res') = {n \in 1..arg.expected_max :
                                   \A i \in DOMAIN arg.products :
                                       \/ arg.products[i].t_number = << >>
                                       \/ ToInt(arg.products[i].t_number) # n}
               /\ arg' = arg
      ]_vars

\* a dataset with a product without t_number, one beyond expected_max and one inside
C7_Witness ==
    /\ fn = "find_missing_t_numbers"
    /\ \E i, j, k \in DOMAIN arg.products :
         /\ arg.products[i].t_number = << >>
         /\ arg.products[j].t_number = <<"6">>
         /\ arg.products[k].t_number = <<"0", "1">>
    /\ arg.expected_max = 4
    /\ res = <<2, 3, 4>>

\* the last product of a dataset whose t_number is k
LastWithTNumber(products, k) ==
    LET at == {i \in DOMAIN products :
                 products[i].t_number # << >> /\ ToInt(products[i].t_number) = k}
    IN  products[CHOOSE i \in at : \A j \in at : j <= i]

\* C8: for a key of both datasets the merged record is the last recovered one.
C8_RecoveredWins ==
    fn = "merge_json_files" =>
        \A k \in TNumbersOf(arg.original) \cap TNumbersOf(arg.recovered.products) :
            /\ \E m \in DOMAIN res.merged_products :
                 ToInt(res.merged_products[m].t_number) = k
            /\ \A m \in DOMAIN res.merged_products :
                 ToInt(res.merged_products[m].t_number) = k
                    => res.merged_products[m] = LastWithTNumber(arg.recovered.products, k)

\* both datasets hold key 1, under different names and different t_number strings
C8_Witness ==
    /\ fn = "merge_json_files"
    /\ arg.original = <<[t_number |-> <<"1">>, name |-> <<"A">>]>>
    /\ arg.recovered.products = <<[t_number |-> <<"0", "1">>, name |-> <<"A">>],
                                  [t_number |-> <<"1">>, name |-> <<"B">>]>>
    /\ res.merged_products = <<[t_number |-> <<"1">>, name |-> <<"B">>]>>

\* C9: the merged sequence is strictly ascending by int(t_number).
C9_StrictlyAscending ==
    fn = "merge_json_files" =>
        \A i, j \in DOMAIN res.merged_products :
            i < j => ToInt(res.merged_products[i].t_number)
                        < ToInt(res.merged_products[j].t_number)

\* inputs in descending order, merged in ascending order
C9_Witness ==
    /\ fn = "merge_json_files"
    /\ Len(arg.original) = 2
    /\ ToInt(arg.original[1].t_number) > ToInt(arg.original[2].t_number)
    /\ arg.original[2].t_number # << >>
    /\ Len(res.merged_products) = 2

\* C10: the merged output holds exactly one record per integer t_number of the two
\* datasets and nothing else; a record without t_number is dropped.
C10_OnePerTNumber ==
    fn = "merge_json_files" =>
        LET keys == TNumbersOf(arg.original) \cup TNumbersOf(arg.recovered.products)
            merged == res.merged_products
        IN  /\ Len(merged) = Cardinality(keys)
            /\ \A m \in DOMAIN merged :
                 /\ merged[m].t_number # << >>
                 /\ merged[m] \in Range(arg.original) \cup Range(arg.recovered.products)
            /\ {ToInt(merged[m].t_number) : m \in DOMAIN merged} = keys

\* a record without t_number and two records of one key go in, one record comes out
C10_Witness ==
    /\ fn = "merge_json_files"
    /\ \E i \in DOMAIN arg.original : arg.original[i].t_number = << >>
    /\ \E i \in DOMAIN arg.original : arg.original[i].t_number = <<"0", "1">>
    /\ \E i \in DOMAIN arg.recovered.products : arg.recovered.products[i].t_number = <<"1">>
    /\ Len(arg.original) + Len(arg.recovered.products) = 4
    /\ Len(res.merged_products) = 2

\* C11: when the merged key set is non-empty, still_missing is exactly the integers
\* between the smallest and the largest merged key that are no merged key, and the
\* merged output is the records of the merged keys, in key order, none for an absent
\* key: the report changes nothing.
C11_StillMissingDiagnostic ==
    (fn = "merge_json_files" /\ res.merged_products # << >>) =>
        LET merged == res.merged_products
            keys == TNumbersOf(arg.original) \cup TNumbersOf(arg.recovered.products)
            lo == CHOOSE n \in keys : \A m \in keys : n <= m
            hi == CHOOSE n \in keys : \A m \in keys : m <= n
        IN  /\ Range(res.still_missing) = {n \in lo..hi : n \notin keys}
            /\ Len(res.still_missing) = Cardinality(Range(res.still_missing))
            /\ [m \in DOMAIN merged |-> ToInt(merged[m].t_number)] = Sorted(keys)
            /\ \A m \in DOMAIN merged : ToInt(merged[m].t_number) \notin Range(res.still_missing)

\* keys 1 and 3 are merged, 2 is reported and gets no record
C11_Witness ==
    /\ fn = "merge_json_files"
    /\ res.still_missing = <<2>>
    /\ Len(res.merged_products) = 2
    /\ arg.recovered.exists /\ arg.recovered.products # << >>

\* C12: in main the page loop of a category is left exactly when the fetched page is
\* empty, or held no identity that was new to the ledgers, or the next index would
\* pass the ceiling: after a page with a new identity the next page is fetched.
C12_StopsExactlyWhen ==
    [][/\ (pc = "fetch" /\ step' \in {"page", "empty_page"})
            => (pc' = "cat" <=> step' = "empty_page")
       /\ (pc = "retry" /\ step' = "page_done")
            => (pc' = "cat" <=> (fresh = 0 \/ page_idx + 1 > PageCeiling))
      ]_vars

\* the page indices of the products collected for the category being crawled
PagesCollected ==
    {all_products[i].page_idx :
        i \in {j \in DOMAIN all_products : all_products[j].mid_category = mid_name}}

\* C13: when a category serves k (k < 100) pages of unseen items, all enriched, and
\* then an empty page, main fetches pages 1, 2, ..., k+1 in that order, has products
\* of exactly pages 1..k, and leaves the category without a fetch of page k+2.
C13_PagesInOrder ==
    [][/\ (pc # "fetch" /\ pc' = "fetch")
            => \/ (pc = "cat" /\ page_idx' = 1)
               \/ (pc = "retry" /\ page_idx' = page_idx + 1 /\ catIdx' = catIdx)
       /\ (pc = "fetch" /\ step' = "empty_page" /\ page_idx <= PageCeiling)
            => /\ PagesCollected = 1..(page_idx - 1)
               /\ pc' = "cat" /\ catIdx' = catIdx + 1
      ]_vars

\* the first category served three pages and then an empty one
C13_Witness ==
    /\ step = "empty_page" /\ catIdx = 2
    /\ [i \in DOMAIN all_products |-> all_products[i].page_idx] = <<1, 2, 3>>
    /\ \A i \in DOMAIN all_products : AnyDetails(all_products[i].details)

\* the ids of the records of the recovered list, in order
RecoveredIds == [i \in DOMAIN r_recovered_products |-> ToInt(r_recovered_products[i].t_number)]

DuplicateFree(list) == Cardinality(Range(list)) = Len(list)

\* C15: in a recovery crawl called with a duplicate-free list, after every item the
\* recovered ids and the ids left in the missing list are disjoint and together are
\* the ids passed in, no id is recovered twice, and the third component returned
\* is the list passed in without the recovered ids.
C15_RecoveredAndMissingPartition ==
    (rpc # "idle" /\ DuplicateFree(initial_missing)) =>
        /\ Range(RecoveredIds) \cap Range(missing_t_numbers) = {}
        /\ Range(RecoveredIds) \cup Range(missing_t_numbers) = Range(initial_missing)
        /\ DuplicateFree(RecoveredIds)
        /\ r_result.kind = "triple"
             => /\ DuplicateFree(r_result.value[3])
                /\ Range(r_result.value[3]) = Range(initial_missing) \ Range(RecoveredIds)

\* of two ids one was recovered, under "01", met again as "1" and passed, and the
\* other is returned as still missing
C15_Witness ==
    /\ rpc = "returned"
    /\ initial_missing = <<3, 1>>
    /\ RecoveredIds = <<1>>
    /\ r_recovered_products[1].t_number = <<"0", "1">>
    /\ r_result.kind = "triple" /\ r_result.value[3] = <<3>>

\* C16: when the enrichment of a matched item raises in the recovery crawl, the id is
\* appended to failed_t_numbers, stays in the missing list and is not appended to
\* the recovered list, and the walk goes on with the next item.
C16_FailedStaysMissing ==
    [][(rpc = "item" /\ r_step' = "enrich_error")
            => LET t_num == ToInt(r_items[r_idx + 1].t_number)
               IN  /\ failed_t_numbers' = Append(failed_t_numbers, t_num)
                   /\ missing_t_numbers' = missing_t_numbers
                   /\ r_recovered_products' = r_recovered_products
                   /\ rpc' = "item" /\ r_idx' = r_idx + 1
      ]_vars

\* C17: once the missing list is empty the recovery crawl fetches no listing page and
\* no category page any more: the rest of the page is passed over, the loops are
\* left and the function returns.
C17_NoFetchOnceEmpty ==
    [][(rpc # "idle" /\ missing_t_numbers = << >>)
            => /\ rpc' \notin {"cat", "fetch", "crashed"}
               /\ r_step' \in {"pass", "page_done", "returned", "nothing_missing"}
               /\ r_served' = r_served
               /\ r_catIdx' = r_catIdx
      ]_vars

\* both ids were found on one page of the first category and the function returned
\* without a visit of the second category
C17_Witness ==
    /\ rpc = "returned" /\ r_step = "returned"
    /\ r_catIdx = 1
    /\ initial_missing = <<2, 1>> /\ RecoveredIds = <<1, 2>>
    /\ r_result.value[3] = << >>

\* C18: every call of the recovery crawl returns a triple, and a call with an empty
\* list returns three empty lists without launching a browser or fetching a page.
C18_AlwaysATriple ==
    rpc = "returned" =>
        /\ r_result.kind = "triple"
        /\ initial_missing = << >>
             => /\ r_result.value = << << >>, << >>, << >> >>
                /\ browser = "none"
                /\ r_served = 0

\* C19: in main and in the recovery crawl a pair for which no handle is resolved gets
\* no listing fetch and adds no product and no ledger entry, and the crawl goes on
\* with the next pair; a listing page is fetched under a resolved handle only.
C19_UnresolvedIsSkipped ==
    [][/\ (pc = "cat" /\ step' = "no_handle")
            => /\ pc' = "cat" /\ catIdx' = catIdx + 1
               /\ all_products' = all_products /\ admit_log' = admit_log
               /\ global_seen' = global_seen /\ seen_goods' = {}
               /\ served' = served
       /\ (pc = "cat" /\ pc' = "fetch")
            => (disp_cat_no' # None /\ \A i \in DOMAIN disp_cat_no' : IsDigit(disp_cat_no'[i]))
       /\ (rpc = "cat" /\ r_step' = "no_handle")
            => /\ rpc' = "cat" /\ r_catIdx' = r_catIdx + 1
               /\ r_recovered_products' = r_recovered_products
               /\ missing_t_numbers' = missing_t_numbers
               /\ failed_t_numbers' = failed_t_numbers
               /\ r_served' = r_served
       /\ (rpc = "cat" /\ rpc' = "fetch")
            => (r_disp_cat_no' # None
                /\ \A i \in DOMAIN r_disp_cat_no' : IsDigit(r_disp_cat_no'[i]))
      ]_vars

\* main crawled the first category and has just found no handle for the second
C19_Witness ==
    /\ pc = "cat" /\ step = "no_handle"
    /\ catIdx = Len(Taxonomy) + 1
    /\ all_products # << >>
    /\ \A i \in DOMAIN all_products : all_products[i].mid_category = Taxonomy[1].mid_name

\* C14: whatever the server answers, main and the recovery crawl fetch no listing
\* page with an index above 100, and each of them comes to its end.
C14_CeilingAndTermination ==
    /\ [](/\ pc \in {"fetch", "item", "retry"} => page_idx <= PageCeiling
          /\ rpc \in {"fetch", "item"} => r_page_idx <= RecoveryPageCeiling)
    /\ <>(pc = "done" \/ rpc = "returned")

\* main collected the hundred pages of the first category and left it
C14_Witness ==
    /\ pc = "cat" /\ step = "page_done" /\ catIdx = 2
    /\ Len(all_products) = PageCeiling
    /\ all_products[PageCeiling].page_idx = PageCeiling

\* C20: extract_product_details navigates to the detail page at most max_retries
\* times, is left by its return statement only, whatever the page raises, and when
\* no attempt populated a field it returns the five fields, all empty.
C20_BoundedAndTotal ==
    d_pc # "idle" =>
        /\ navigations <= max_retries
        /\ d_pc \in {"attempt", "returned"}
        /\ d_pc = "returned"
             => /\ DOMAIN d_result = DetailFields
                /\ ~populated => d_result = EmptyDetails

\* three attempts were made, with and without an exception, none populated a field,
\* and five empty fields came back
C20_Witness ==
    /\ d_pc = "returned"
    /\ max_retries = 3 /\ navigations = 3
    /\ attempt_log = <<"raised", "completed", "raised">>
    /\ ~populated
    /\ d_result = EmptyDetails

DigitsOf(s) == SelectSeq(s, LAMBDA c : IsDigit(c))

\* C22 as stated: a summary whose raw original price is empty and whose raw current
\* price is non-empty has, after normalization, price_org = price_cur = the integer
\* of the digits of the current price.
C22_NonSalePrice ==
    (fn = "normalize_prices" /\ arg.price_org_raw = << >> /\ arg.price_cur_raw # << >>)
        => /\ res.price_org = res.price_cur
           /\ res.price_cur = PyInt(ToInt(DigitsOf(arg.price_cur_raw)))

\* C22 amended: the same for a raw current price that holds at least one digit; a
\* non-empty current price without a digit leaves both prices None.
C22_NonSalePriceWithDigits ==
    (fn = "normalize_prices" /\ arg.price_org_raw = << >> /\ arg.price_cur_raw # << >>)
        => IF DigitsOf(arg.price_cur_raw) # << >>
           THEN /\ res.price_org = res.price_cur
                /\ res.price_cur = PyInt(ToInt(DigitsOf(arg.price_cur_raw)))
           ELSE res.price_org = PyNone /\ res.price_cur = PyNone

\* "12,000won" with no original price gives the integer 12000 twice
C22_Witness ==
    /\ fn = "normalize_prices"
    /\ arg.price_org_raw = << >> /\ arg.price_cur_raw = TwelveThousand
    /\ res = [price_org |-> PyInt(12000), price_cur |-> PyInt(12000)]

\* C23 as stated: when the navigation back to the listing raises after an
\* enrichment, with fields or with all-empty details, the run goes on: the key of
\* the item is in neither ledger and the first pass is at the next item.
C23_BackNavigationNeverAborts ==
    [][(pc = "item" /\ fresh' = fresh + 1 /\ step' \in {"rollback_error", "key_error"})
          => /\ pc' = "item" /\ idx' = idx + 1
             /\ ~InLedgers(GidFirstPass(items[idx + 1], disp_cat_no, page_idx, idx),
                           global_seen', seen_goods')
      ]_vars

\* C24 as stated: a navigation error on the fetch of a category page or of a
\* listing page aborts neither crawl: it goes on with what loaded and its dataset
\* is written at the end of the run.
C24_NavigationErrorNeverAborts ==
    /\ step = "nav_error" => pc # "crashed"
    /\ r_step = "nav_error" => rpc # "crashed"
    /\ (pc = "crashed" /\ all_products # << >>) => out_file = all_products
    /\ (rpc = "crashed" /\ r_recovered_products # << >>) => recovered_file = r_recovered_products

\* the position of the first occurrence of x in s
FirstIndex(s, x) == CHOOSE i \in DOMAIN s : s[i] = x /\ \A j \in 1..(i - 1) : s[j] # x

\* out lists the distinct non-empty members of encountered, each once, in the order
\* of their first occurrences, and de-duplicating it again changes nothing
FirstOccurrences(encountered, out) ==
    /\ \A i, j \in DOMAIN out : i # j => out[i] # out[j]
    /\ \A i \in DOMAIN out : out[i] # << >> /\ out[i] \in Range(encountered)
    /\ \A i, j \in DOMAIN out :
         i < j => FirstIndex(encountered, out[i]) < FirstIndex(encountered, out[j])
    /\ \A k \in Range(encountered) : k # << >> => k \in Range(out)
    /\ uniq_keep_order(out) = out

\* C27: first-level key discovery returns the encountered keys in order of first
\* occurrence without duplicates - a duplicate-free subsequence holding every
\* distinct non-empty encountered key - and de-duplication is idempotent.
C27_FirstOccurrenceOrder ==
    /\ fn = "extract_first_categories" => FirstOccurrences(FirstsOf(arg.anchors), res)
    /\ fn = "uniq_keep_order" => FirstOccurrences(arg.items, res)

\* skin, hair, and skin again from the anchor of one of its second-level categories
C27_Witness ==
    /\ fn = "extract_first_categories"
    /\ arg.anchors = <<HrefSkin, HrefHair, HrefSkinToner>>
    /\ res = <<BigSkin, BigHair>>

\* a context is acquired from "none" and leaves "open" once, by close or by the
\* exit handler
ContextLifeCycle(before, after) ==
    before # after => \/ (before = "none" /\ after = "open")
                      \/ (before = "open" /\ after \in {"closed", "stopped"})

\* C25 as stated: every run of the three crawls acquires the browser context once
\* and has closed it once when it ends, by reaching the end of the walk or by an
\* exception.
C25_ContextClosedOnEveryPath ==
    /\ pc \in {"done", "crashed"} => context = "closed"
    /\ rpc \in {"returned", "crashed"} => browser = "closed"
    /\ t_pc \in {"done", "crashed"} => (t_context = "closed" /\ t_acquired = 1)

\* C25 amended: a run acquires the context at most once and closes it at most
\* once.  A run that reaches the end of the walk has closed it; a run that an
\* exception leaves has not: the context is open when the exit handler of the
\* playwright block stops the driver.  A recovery crawl with nothing to recover
\* returns without acquiring a context.
C25_ContextClosedAfterTheWalk ==
    [][/\ ContextLifeCycle(context, context')
       /\ ContextLifeCycle(browser, browser')
       /\ ContextLifeCycle(t_context, t_context')
       /\ t_acquired' <= 1
       /\ pc' = "done" => context' = "closed"
       /\ pc' = "crashed" => context' = "stopped"
       /\ rpc' = "returned"
            => browser' = (IF initial_missing' = << >> THEN "none" ELSE "closed")
       /\ rpc' = "crashed" => browser' = "stopped"
       /\ t_pc' = "done" => t_context' = "closed"
       /\ t_pc' = "crashed" => t_context' = "stopped"
      ]_vars

\* the taxonomy crawl is left by an exception after the first key was visited
C25_Witness ==
    /\ t_pc = "crashed" /\ t_context = "stopped" /\ t_acquired = 1
    /\ Len(t_result) = 1 /\ Len(first_keys) = 2

\* C26 as stated: every record of the primary crawl's output, also one admitted
\* without a detail URL or with detail fetching disabled, carries the five detail
\* fields, each a string that is empty when the value is absent.
C26_FiveFieldsInEveryRecord ==
    /\ \A i \in DOMAIN all_products : DOMAIN all_products[i].details = DetailFields
    /\ out_file # NoFile => \A i \in DOMAIN out_file : DOMAIN out_file[i].details = DetailFields

\* a summary that has neither a t_number nor a goodsNo
WithoutIds(it) == it.t_number = << >> /\ it.goodsNo = << >>

\* the summaries without ids a listing page may hold
SummariesWithoutIds ==
    {it \in {ParseItem([goodsNo |-> << >>, detailUrl |-> u]) : u \in KeyUrls} : WithoutIds(it)}

\* C28 as stated: at each of the three sites, the fallback key of a summary without
\* ids differs from the fallback key of every summary without ids at another
\* position of the same listing page of the same category.
C28_DistinctFallbackKeys ==
    (fn \in KeySites /\ WithoutIds(arg.it))
        => \A other \in SummariesWithoutIds, j \in 0..MaxKeyIdx :
             j # arg.idx
               => /\ fn = "key_first_pass"
                       => GidFirstPass(other, arg.disp_cat_no, arg.page_idx, j) # res
                  /\ fn = "key_retry_pass"
                       => GidRetryPass(other, arg.disp_cat_no, arg.page_idx, j + 1) # res
                  /\ fn = "key_one_mid"
                       => GidOneMid(other, arg.disp_cat_no, arg.page_idx) # res

\* C29 as stated: for the item at position idx of a listing page the retry pass
\* derives the key the first pass derived for it.
C29_RetryKeyIsFirstPassKey ==
    fn = "key_retry_pass"
        => res = GidFirstPass(arg.it, arg.disp_cat_no, arg.page_idx, arg.idx)

\* the rows of arg.mid_rows that match the target at each tier
NormRows == {i \in DOMAIN arg.mid_rows :
               norm(arg.mid_rows[i].mid_name) = norm(arg.target_mid_name)}
RawRows == {i \in DOMAIN arg.mid_rows : arg.mid_rows[i].mid_name = arg.target_mid_name}
FuzzyRows == {i \in DOMAIN arg.mid_rows :
                LET r == Ratio(arg.mid_rows[i].mid_name, arg.target_mid_name)
                IN  100 * r.num >= 72 * r.den}

\* row i scores at least as high as row j against the target
ScoresAtLeast(i, j) ==
    LET r == Ratio(arg.mid_rows[i].mid_name, arg.target_mid_name)
        q == Ratio(arg.mid_rows[j].mid_name, arg.target_mid_name)
    IN  r.num * q.den >= q.num * r.den

\* C30: choose_disp_for_target returns the handle of the first row that matches
\* after normalization; when there is none, that of the first row equal on raw text;
\* when there is none, that of a row of the best fuzzy match at cutoff 0.72; when
\* there is none, (None, "none").  A lower tier never answers when a higher one has
\* a match.
C30_TiersInOrder ==
    fn = "choose_disp_for_target"
        => IF NormRows # {}
           THEN \E i \in NormRows :
                  /\ \A j \in NormRows : i <= j
                  /\ res = [dispCatNo |-> arg.mid_rows[i].dispCatNo, how |-> "exact_norm"]
           ELSE IF RawRows # {}
           THEN \E i \in RawRows :
                  /\ \A j \in RawRows : i <= j
                  /\ res = [dispCatNo |-> arg.mid_rows[i].dispCatNo, how |-> "exact_raw"]
           ELSE IF FuzzyRows # {}
           THEN \E i \in FuzzyRows :
                  /\ \A j \in FuzzyRows : ScoresAtLeast(i, j)
                  /\ res = [dispCatNo |-> arg.mid_rows[i].dispCatNo, how |-> "fuzzy"]
           ELSE res = [dispCatNo |-> None, how |-> "none"]

\* the first row is the best fuzzy match of the target, the second matches after
\* normalization: the second row's handle is returned
C30_Witness ==
    /\ fn = "choose_disp_for_target"
    /\ arg.target_mid_name = <<"T", "n">>
    /\ arg.mid_rows = <<[mid_name |-> <<"T", "n", "x">>, dispCatNo |-> <<"7">>],
                        [mid_name |-> <<" ", "t", "_", "n">>, dispCatNo |-> <<"8">>]>>
    /\ res = [dispCatNo |-> <<"8">>, how |-> "exact_norm"]

\* the candidate rows of the links: the text as name, the handle of the href, for
\* the links that carry a handle
RECURSIVE RowsOfLinks(_)
RowsOfLinks(links) ==
    IF links = << >> THEN << >>
    ELSE LET d == HrefDispCatNo(Head(links).href)
         IN  (IF d = None THEN << >>
              ELSE <<[mid_name |-> Strip(Head(links).text), dispCatNo |-> d]>>)
                 \o RowsOfLinks(Tail(links))

\* C31 as stated: on the same links and the same target name the inline resolution
\* of main and of the recovery crawl gives what choose_disp_for_target gives: the
\* same handle, or none.
C31_InlineIsThreeTier ==
    fn \in {"resolve_in_main", "resolve_in_recovery"}
        => res = choose_disp_for_target(RowsOfLinks(arg.mid_links), arg.mid_name).dispCatNo

\* C32 as stated, its safety part: crawl_one_mid never fetches a page whose index
\* is greater than 100, and it has stopped once page 100 was fetched and held a
\* new identity.
C32_OneMidCeiling ==
    /\ \A i \in DOMAIN o_fetched : o_fetched[i] <= 100
    /\ o_pc = "loop" => o_page_idx <= 100

\* C33 as stated: at the three call sites the listing URL for first-level key f,
\* second-level name m, handle h and page index i carries dispCatNo = h,
\* pageIdx = i, t_1st_category_type = f and t_2nd_category_type = "mid_" + m, and
\* is the value of build_product_list_url for these four.
C33_ListingUrlArguments ==
    fn \in {"url_in_main", "url_in_recovery", "url_in_one_mid"}
        => /\ res.dispCatNo = Quote(arg.disp_cat_no)
           /\ res.pageIdx = Str(arg.page_idx)
           /\ res.t_1st_category_type = Quote(arg.first_key)
           /\ res.t_2nd_category_type = Quote(<<"mid_">> \o arg.mid_name)
           /\ res = build_product_list_url(arg.first_key, arg.mid_name, Str(arg.page_idx),
                                           arg.disp_cat_no)

\* s is a prefix of t
IsPrefix(s, t) == Len(s) <= Len(t) /\ SubSeq(t, 1, Len(s)) = s

\* C34: no step of main removes, reorders or modifies a product that was appended:
\* the output list before a step is a prefix of the list after it.
C34_OutputAppendOnly ==
    [][IsPrefix(all_products, all_products')]_vars

\* on a second page, after an append by the retry pass and a rollback, two products
\* are in the list and the first pass appends a third
C34_Witness ==
    /\ page_idx = 2 /\ step = "append"
    /\ Len(all_products) >= 2
    /\ \E i \in DOMAIN all_products : all_products[i].page_idx = 1
    /\ \E i \in 1..(Len(admit_log) - 1) : admit_log[i][1] = "fb_"

\* the integer keys of a product list
KeysOf(products) == CollectedNumbers(products)

\* C35: after find_missing_t_numbers, the recovery crawl and merge_json_files, no
\* recovered key is a key of the original, the merge replaced nothing, and the
\* integers of [1, expected_max] that are not keys of the merged output are exactly
\* the ids the recovery crawl returned as still missing.
C35_ReconciliationConverges ==
    fn = "merge_json_files" =>
        LET recovered == r_result.value[1]
            still == r_result.value[3]
        IN  /\ KeysOf(recovered) \cap KeysOf(arg.products) = {}
            /\ res.replaced_count = 0
            /\ res.inserted_count = Len(recovered)
            /\ (1..arg.expected_max) \ KeysOf(res.merged_products) = Range(still)
            /\ Cardinality(Range(still)) = Len(still)

\* a run that recovered one id, left another missing, with an original that holds
\* a key
C35_Witness ==
    /\ fn = "merge_json_files"
    /\ r_result.value[1] # << >>
    /\ r_result.value[3] # << >>
    /\ KeysOf(arg.products) # {}
    /\ res.inserted_count >= 1

\* the "t_" keys of a ledger, as t_number strings
TNumbersOfLedger(ledger) == {Tail(gid) : gid \in {g \in ledger : Head(g) = "t_"}}

\* the t_numbers of the records of a product list
TNumbersOfOutput(products) ==
    {products[i].t_number : i \in DOMAIN products} \ {<< >>}

\* C36: between two items of main the category ledger is a subset of the global
\* ledger, and "t_" + n is in the global ledger exactly when the output list holds a
\* record with t_number n.
C36_LedgersAgreeWithOutput ==
    /\ seen_goods \subseteq global_seen
    /\ TNumbersOfLedger(global_seen) = TNumbersOfOutput(all_products)


\* a "t_"-keyed item has just been rolled back while the output holds other
\* t_numbers: its key is in no ledger and its t_number in no record
C36_Witness ==
    /\ step \in {"rollback_empty", "rollback_error"}
    /\ idx >= 1 /\ idx <= Len(items)
    /\ items[idx].t_number # << >>
    /\ (<<"t_">> \o items[idx].t_number) \notin global_seen
    /\ TNumbersOfOutput(all_products) # {}
    /\ seen_goods # global_seen

\* C37: the counts of merge_json_files agree with its output: inserted + replaced is
\* the number of recovered records that have a t_number, and the merged output has
\* one record per distinct integer t_number of the original plus one per insert.
C37_CountsAgreeWithOutput ==
    fn = "merge_json_files" =>
        LET recovered_products == IF arg.recovered.exists THEN arg.recovered.products
                                  ELSE << >>
        IN  /\ res.inserted_count + res.replaced_count = CountWithTNumber(recovered_products)
            /\ Len(res.merged_products)
                 = Cardinality(CollectedNumbers(arg.original)) + res.inserted_count

\* an insert and a replacement, with an original that spells one integer key twice
C37_Witness ==
    /\ fn = "merge_json_files"
    /\ res.inserted_count = 1 /\ res.replaced_count = 1
    /\ Cardinality(CollectedNumbers(arg.original)) < CountWithTNumber(arg.original)

\* C38: when the recovered file does not exist merge_json_files returns, counts no
\* recovered product, and its output is made of original records that have a
\* t_number, one per distinct integer key, in ascending order of the key.
C38_MissingRecoveredFile ==
    (fn = "merge_json_files" /\ ~arg.recovered.exists) =>
        /\ "raised" \notin DOMAIN res
        /\ res.recovered_count = 0
        /\ res.inserted_count = 0 /\ res.replaced_count = 0
        /\ [i \in DOMAIN res.merged_products |-> ToInt(res.merged_products[i].t_number)]
             = Sorted(CollectedNumbers(arg.original))
        /\ \A i \in DOMAIN res.merged_products :
             /\ res.merged_products[i] \in Range(arg.original)
             /\ res.merged_products[i].t_number # << >>

\* no recovered file, and an original whose two keys are stored in descending order
C38_Witness ==
    /\ fn = "merge_json_files" /\ ~arg.recovered.exists
    /\ Len(arg.original) = 2
    /\ arg.original[1].t_number # << >> /\ arg.original[2].t_number # << >>
    /\ ToInt(arg.original[1].t_number) > ToInt(arg.original[2].t_number)
    /\ Len(res.merged_products) = 2

====
